---- MODULE Spec2Model ----
(***************************************************************************)
(* Model of the augmented-networkpolicy-operator:                          *)
(*   internal/dns/filter.go      IPFilter, FilteringResolver               *)
(*   unnamed/part_002            the FilteringResolver with change         *)
(*                               detection (no dynamic blacklist)          *)
(*   internal/controller/...     NetworkPolicyReconciler.Reconcile         *)
(***************************************************************************)
EXTENDS Integers, Sequences, FiniteSets, TLC

VARIABLES
    filterState,        \* "none" before NewIPFilter, "ok" once built, "error" if NewIPFilter failed
    whitelist,          \* IPFilter.whitelist        : sequence of nets
    staticBlacklist,    \* IPFilter.staticBlacklist  : sequence of nets
    dynamicBlacklist,   \* IPFilter.dynamicBlacklist : sequence of nets
    ret,                \* what the last call on the filter was given and what it returned
    ipFilteredTotal,    \* augmented_networkpolicy_ip_filtered_total, summed per hostname
    lastSeen,           \* FilteringResolver.lastSeen (unnamed/part_002): hostname -> baseline
    dnsResolutionChangesTotal,  \* augmented_networkpolicy_dns_resolution_changes_total, per hostname
    anp,                        \* the source NetworkPolicy (networking.ayoy.se) in the API server
    np,                         \* the derived NetworkPolicy (networking.k8s.io) of the same name
    networkPolicyCreations,     \* augmented_networkpolicy_creations_total
    networkPolicyDeletions,     \* augmented_networkpolicy_deletions_total
    dnsNameChanges,             \* augmented_networkpolicy_dns_changes_total
    startPc,            \* where PodCIDRProvider.Start stands: "idle", "refresh", "select", "returned"
    ctxDone,            \* the context given to Start has been cancelled
    tickerC,            \* values waiting in ticker.C (a channel of capacity one)
    ticks,              \* values the ticker has sent on ticker.C so far
    refreshes,          \* calls of PodCIDRProvider.refresh so far
    nodeList,           \* what the last refresh got from Client.List
    zone,               \* what the DNS answers for each hostname, and its serial number
    inflight            \* the calls under way on the shared resolver or filter: each caller's locals

filterVars == <<filterState, whitelist, staticBlacklist, dynamicBlacklist, ret>>

\* the state outside the IPFilter
changeVars == <<lastSeen, dnsResolutionChangesTotal>>

ctlVars == <<anp, np, networkPolicyCreations, networkPolicyDeletions, dnsNameChanges>>

providerVars == <<startPc, ctxDone, tickerC, ticks, refreshes, nodeList>>

dnsVars == <<filterVars, ipFilteredTotal, changeVars, providerVars, zone, inflight>>

notFilterVars == <<ipFilteredTotal, changeVars, ctlVars, providerVars, zone, inflight>>

vars == <<filterVars, notFilterVars>>

-----------------------------------------------------------------------------
(* Addresses and CIDR strings.                                             *)
(* An address is a family (4 or 6) and an AddrBits-wide number; a CIDR     *)
(* string "addr/plen" is the record of what is written in it.  A string    *)
(* that net.ParseCIDR rejects is one whose family is unknown or whose      *)
(* prefix length exceeds the address width.                                *)

AddrBits == 2

MaxStatic == 1      \* longest whitelist / blacklist given to NewIPFilter
MaxDynamic == 2     \* longest list given to SetDynamicBlacklist
MaxAnswers == 2     \* longest address list a resolver returns
MaxCount == 1       \* the counters are followed up to this value

Hostnames == {"a.example", "b.example"}

\* no entry in the lastSeen map
Unseen == [seen |-> FALSE, cidrs |-> <<>>]

Families == {4, 6}

AddrSpace == 0 .. (2 ^ AddrBits - 1)

Str(fam, addr, plen) == [fam |-> fam, addr |-> addr, plen |-> plen]

NotACidr == Str(0, 0, 0)                \* "not-a-cidr"
EmptyString == Str(0 - 1, 0, 0)         \* ""
BadPrefix == Str(4, 1, AddrBits + 1)    \* "1.2.3.4/33"

\* address/prefix with the host bits cleared (IP.Mask)
Mask(addr, plen) == (addr \div (2 ^ (AddrBits - plen))) * (2 ^ (AddrBits - plen))

\* net.ParseCIDR: the address as written, and the network with host bits cleared
ParseCIDR(s) ==
    IF s.fam \in Families /\ s.addr \in AddrSpace /\ s.plen \in 0 .. AddrBits
    THEN [err |-> FALSE,
          ip  |-> [fam |-> s.fam, addr |-> s.addr],
          net |-> [fam |-> s.fam, addr |-> Mask(s.addr, s.plen), plen |-> s.plen]]
    ELSE [err |-> TRUE,
          ip  |-> [fam |-> 0, addr |-> 0],
          net |-> [fam |-> 0, addr |-> 0, plen |-> 0]]

\* (*net.IPNet).Contains: same family and equal under the network's mask
NetContains(n, ip) == n.fam = ip.fam /\ Mask(ip.addr, n.plen) = n.addr

\* the strings the static lists are built from
ConfigPool ==
    { Str(4, 1, 1),         \* 10.0.1.5/24 style: host bits set, covers the lower v4 half
      Str(4, 1, AddrBits),  \* one v4 host, inside the range above
      Str(6, 0, 0),         \* ::/0
      NotACidr }

\* the strings the dynamic list is built from (node pod ranges)
DynamicPool ==
    { Str(4, 1, AddrBits),  \* one v4 host
      Str(4, 3, 1),         \* a v4 range written with host bits set
      BadPrefix }

\* the strings IsAllowed is asked about
QueryStrings ==
    { Str(f, a, AddrBits) : f \in Families, a \in AddrSpace }
        \cup { Str(4, 1, 1), NotACidr, BadPrefix }

-----------------------------------------------------------------------------
(* The objects the controller reads and writes.                            *)

defaultResolutionInterval == 300    \* seconds
minResolutionInterval == 30         \* seconds
conditionTypeReady == "Ready"

MaxGeneration == 2  \* the source policy's generation is followed up to this value
MaxEvents == 2      \* passes are followed until the controller's counters add up to this
MaxTime == 1        \* the latest time at which a pass reads the clock

PortOf(protocol, n, endPort) == [protocol |-> protocol, port |-> n, endPort |-> endPort]

Port(n) == PortOf("TCP", n, 0)

EgressRule(ports, to) == [ports |-> ports, to |-> to]

\* spec.resolutionInterval: unset, or a duration in seconds
Unset == [set |-> FALSE, seconds |-> 0]
Seconds(n) == [set |-> TRUE, seconds |-> n]

SourceSpec(egress, interval) ==
    [podSelector |-> "app=web", policyTypes |-> <<"Egress">>,
     egress |-> egress, resolutionInterval |-> interval]

\* the source specs users write: no rule; one hostname; two hostnames in one
\* rule; one hostname in two rules
SourceSpecs ==
    { SourceSpec(<<>>, Seconds(600)),
      SourceSpec(<<EgressRule(<<Port(443)>>, <<"a.example">>)>>, Unset),
      SourceSpec(<<EgressRule(<<>>, <<"a.example", "b.example">>)>>, Seconds(10)),
      SourceSpec(<<EgressRule(<<Port(443)>>, <<"a.example">>),
                   EgressRule(<<PortOf("TCP", 8443, 8450), PortOf("UDP", 53, 0)>>,
                              <<"a.example">>)>>, Seconds(0)),
      SourceSpec(<<EgressRule(<<Port(8443)>>, <<>>)>>, Seconds(0 - 5)) }

\* a map[string][]string without entries
EmptyMap == [h \in {} |-> <<>>]

NoStatus == [conditions |-> <<>>, resolvedAddresses |-> EmptyMap]

NoANP == [exists |-> FALSE, spec |-> SourceSpec(<<>>, Unset), generation |-> 0,
          status |-> NoStatus]

NoNP == [exists |-> FALSE,
         spec |-> [podSelector |-> "", egress |-> <<>>, policyTypes |-> <<>>],
         ownerReferences |-> <<>>]

\* a node list not yet asked for
NoNodeList == [err |-> FALSE, items |-> <<>>]

\* no provider has been started
InitProviderIdle ==
    /\ startPc = "idle"
    /\ ctxDone = FALSE
    /\ tickerC = 0
    /\ ticks = 0
    /\ refreshes = 0
    /\ nodeList = NoNodeList

\* a zone nobody asks
NoZone == [serial |-> 0, answers |-> EmptyMap]

\* the goroutines that call Resolve on one FilteringResolver
Callers == {1, 2}

\* a caller outside Resolve
Idle == [busy |-> FALSE, hostname |-> "", allowed |-> <<>>]

InitZoneIdle ==
    /\ zone = NoZone
    /\ inflight = [p \in Callers |-> Idle]

InitCtl ==
    /\ anp = NoANP
    /\ np = NoNP
    /\ networkPolicyCreations = 0
    /\ networkPolicyDeletions = 0
    /\ dnsNameChanges = 0

-----------------------------------------------------------------------------
RECURSIVE SeqsUpTo(_, _)
SeqsUpTo(S, n) ==
    IF n = 0 THEN { <<>> }
    ELSE LET shorter == SeqsUpTo(S, n - 1)
         IN  shorter \cup { Append(q, x) : q \in shorter, x \in S }

StaticInputs == SeqsUpTo(ConfigPool, MaxStatic)
DynamicInputs == SeqsUpTo(DynamicPool, MaxDynamic)

-----------------------------------------------------------------------------
(* internal/dns/filter.go                                                  *)

RECURSIVE parseCIDRsFrom(_, _, _)
parseCIDRsFrom(cidrs, i, nets) ==
    IF i > Len(cidrs) THEN [err |-> FALSE, nets |-> nets]
    ELSE LET p == ParseCIDR(cidrs[i])
         IN  IF p.err THEN [err |-> TRUE, nets |-> <<>>]
             ELSE parseCIDRsFrom(cidrs, i + 1, Append(nets, p.net))

parseCIDRs(cidrs) == parseCIDRsFrom(cidrs, 1, <<>>)

\* ret.old is the dynamic blacklist as it stood when the call began
Ret(op, arg, err, val) ==
    [op |-> op, arg |-> arg, err |-> err, val |-> val, old |-> dynamicBlacklist]

NoRet == [op |-> "none", arg |-> <<>>, err |-> FALSE, val |-> <<>>, old |-> <<>>]

\* NewIPFilter without the check of the blacklist's parse error
NewIPFilter_IgnoresBlacklistError(wl, bl) ==
    /\ filterState = "none"
    /\ LET w == parseCIDRs(wl)
           b == parseCIDRs(bl)
       IN  IF w.err
           THEN /\ filterState' = "error"
                /\ UNCHANGED <<whitelist, staticBlacklist, dynamicBlacklist>>
                /\ ret' = Ret("NewIPFilter", <<wl, bl>>, TRUE, <<>>)
           ELSE /\ filterState' = "ok"
                /\ whitelist' = w.nets
                /\ staticBlacklist' = b.nets
                /\ dynamicBlacklist' = <<>>
                /\ ret' = Ret("NewIPFilter", <<wl, bl>>, FALSE, <<>>)
    /\ UNCHANGED notFilterVars

NewIPFilter(wl, bl) ==
    /\ filterState = "none"
    /\ LET w == parseCIDRs(wl)
           b == parseCIDRs(bl)
       IN  IF w.err \/ b.err
           THEN /\ filterState' = "error"
                /\ UNCHANGED <<whitelist, staticBlacklist, dynamicBlacklist>>
                /\ ret' = Ret("NewIPFilter", <<wl, bl>>, TRUE, <<>>)
           ELSE /\ filterState' = "ok"
                /\ whitelist' = w.nets
                /\ staticBlacklist' = b.nets
                /\ dynamicBlacklist' = <<>>
                /\ ret' = Ret("NewIPFilter", <<wl, bl>>, FALSE, <<>>)
    /\ UNCHANGED notFilterVars

\* the entries parsed before the first failure, as a parser that fills the
\* destination in place would leave them
RECURSIVE ParsedPrefix(_, _, _)
ParsedPrefix(cidrs, i, nets) ==
    IF i > Len(cidrs) THEN nets
    ELSE LET p == ParseCIDR(cidrs[i])
         IN  IF p.err THEN nets ELSE ParsedPrefix(cidrs, i + 1, Append(nets, p.net))

\* SetDynamicBlacklist appending to the list it holds instead of replacing it
SetDynamicBlacklist_Merges(cidrs) ==
    /\ filterState = "ok"
    /\ LET p == parseCIDRs(cidrs)
       IN  IF p.err
           THEN /\ UNCHANGED dynamicBlacklist
                /\ ret' = Ret("SetDynamicBlacklist", cidrs, TRUE, <<>>)
           ELSE /\ dynamicBlacklist' = dynamicBlacklist \o p.nets
                /\ ret' = Ret("SetDynamicBlacklist", cidrs, FALSE, <<>>)
    /\ UNCHANGED <<filterState, whitelist, staticBlacklist>>
    /\ UNCHANGED notFilterVars

\* SetDynamicBlacklist installing what was parsed before the failure
SetDynamicBlacklist_InstallsPrefix(cidrs) ==
    /\ filterState = "ok"
    /\ LET p == parseCIDRs(cidrs)
       IN  IF p.err
           THEN /\ dynamicBlacklist' = ParsedPrefix(cidrs, 1, <<>>)
                /\ ret' = Ret("SetDynamicBlacklist", cidrs, TRUE, <<>>)
           ELSE /\ dynamicBlacklist' = p.nets
                /\ ret' = Ret("SetDynamicBlacklist", cidrs, FALSE, <<>>)
    /\ UNCHANGED <<filterState, whitelist, staticBlacklist>>
    /\ UNCHANGED notFilterVars

\* the method's effect on the filter
setDynamicBlacklist(cidrs) ==
    /\ filterState = "ok"
    /\ LET p == parseCIDRs(cidrs)
       IN  IF p.err
           THEN /\ UNCHANGED dynamicBlacklist
                /\ ret' = Ret("SetDynamicBlacklist", cidrs, TRUE, <<>>)
           ELSE /\ dynamicBlacklist' = p.nets
                /\ ret' = Ret("SetDynamicBlacklist", cidrs, FALSE, <<>>)
    /\ UNCHANGED <<filterState, whitelist, staticBlacklist>>

\* a call of the method on its own
SetDynamicBlacklist(cidrs) ==
    /\ setDynamicBlacklist(cidrs)
    /\ UNCHANGED notFilterVars

InAny(nets, ip) == \E i \in 1 .. Len(nets) : NetContains(nets[i], ip)

\* IsAllowed consulting the whitelist before the blacklists
IsAllowed_WhitelistFirst(cidr) ==
    LET p == ParseCIDR(cidr)
    IN  IF p.err THEN TRUE
        ELSE IF Len(whitelist) > 0 /\ InAny(whitelist, p.ip) THEN TRUE
        ELSE IF InAny(staticBlacklist, p.ip) THEN FALSE
        ELSE IF InAny(dynamicBlacklist, p.ip) THEN FALSE
        ELSE Len(whitelist) = 0

\* IsAllowed without the whitelist
IsAllowed_NoWhitelist(cidr) ==
    LET p == ParseCIDR(cidr)
    IN  IF p.err THEN TRUE
        ELSE IF InAny(staticBlacklist, p.ip) THEN FALSE
        ELSE IF InAny(dynamicBlacklist, p.ip) THEN FALSE
        ELSE TRUE

\* IsAllowed rejecting what it cannot parse
IsAllowed_FailClosed(cidr) ==
    LET p == ParseCIDR(cidr)
    IN  IF p.err THEN FALSE
        ELSE IF InAny(staticBlacklist, p.ip) THEN FALSE
        ELSE IF InAny(dynamicBlacklist, p.ip) THEN FALSE
        ELSE IF Len(whitelist) > 0 THEN InAny(whitelist, p.ip)
        ELSE TRUE

IsAllowed(cidr) ==
    LET p == ParseCIDR(cidr)
    IN  IF p.err THEN TRUE
        ELSE IF InAny(staticBlacklist, p.ip) THEN FALSE
        ELSE IF InAny(dynamicBlacklist, p.ip) THEN FALSE
        ELSE IF Len(whitelist) > 0 THEN InAny(whitelist, p.ip)
        ELSE TRUE

IsAllowedCall(cidr) ==
    /\ filterState = "ok"
    /\ ret' = Ret("IsAllowed", cidr, FALSE, IsAllowed(cidr))
    /\ UNCHANGED <<filterState, whitelist, staticBlacklist, dynamicBlacklist>>
    /\ UNCHANGED notFilterVars

-----------------------------------------------------------------------------
(* FilteringResolver (internal/dns/filter.go) over an inner Resolver whose  *)
(* answer is the environment's choice.                                      *)

\* the strings an inner resolver answers with
AnswerPool ==
    { Str(4, 0, AddrBits),  \* a v4 host in the lower half
      Str(4, 1, AddrBits),  \* the v4 host the pools name
      NotACidr }            \* an entry that is no CIDR

\* what Inner.Resolve returns: an error, or a list of strings
InnerOutcomes ==
    { [err |-> TRUE, cidrs |-> <<>>] }
        \cup { [err |-> FALSE, cidrs |-> c] : c \in SeqsUpTo(AnswerPool, MaxAnswers) }

\* the loop of Resolve keeping what IsAllowed rejects
RECURSIVE allowedFrom_KeepsRejected(_, _, _)
allowedFrom_KeepsRejected(cidrs, i, allowed) ==
    IF i > Len(cidrs) THEN allowed
    ELSE allowedFrom_KeepsRejected(cidrs, i + 1,
                     IF IsAllowed(cidrs[i]) THEN allowed ELSE Append(allowed, cidrs[i]))

RECURSIVE allowedFrom(_, _, _)
allowedFrom(cidrs, i, allowed) ==
    IF i > Len(cidrs) THEN allowed
    ELSE allowedFrom(cidrs, i + 1,
                     IF IsAllowed(cidrs[i]) THEN Append(allowed, cidrs[i]) ELSE allowed)

\* the loop of Resolve putting each allowed address in front of the others
Resolve_Prepends(hostname, inner) ==
    /\ filterState = "ok"
    /\ IF inner.err
       THEN /\ ret' = Ret("Resolve", <<hostname, inner>>, TRUE, <<>>)
            /\ UNCHANGED ipFilteredTotal
       ELSE LET allowed == allowedFrom(inner.cidrs, 1, <<>>)
                reversed == [i \in 1 .. Len(allowed) |-> allowed[Len(allowed) + 1 - i]]
            IN  /\ ipFilteredTotal[hostname] + (Len(inner.cidrs) - Len(allowed)) <= MaxCount
                /\ ret' = Ret("Resolve", <<hostname, inner>>, FALSE, reversed)
                /\ ipFilteredTotal' =
                       [ipFilteredTotal EXCEPT ![hostname] = @ + (Len(inner.cidrs) - Len(allowed))]
    /\ UNCHANGED <<filterState, whitelist, staticBlacklist, dynamicBlacklist>>
    /\ UNCHANGED <<changeVars, ctlVars, providerVars, zone, inflight>>

Resolve(hostname, inner) ==
    /\ filterState = "ok"
    /\ IF inner.err
       THEN /\ ret' = Ret("Resolve", <<hostname, inner>>, TRUE, <<>>)
            /\ UNCHANGED ipFilteredTotal
       ELSE LET allowed == allowedFrom(inner.cidrs, 1, <<>>)
            IN  /\ ipFilteredTotal[hostname] + (Len(inner.cidrs) - Len(allowed)) <= MaxCount
                /\ ret' = Ret("Resolve", <<hostname, inner>>, FALSE, allowed)
                /\ ipFilteredTotal' =
                       [ipFilteredTotal EXCEPT ![hostname] = @ + (Len(inner.cidrs) - Len(allowed))]
    /\ UNCHANGED <<filterState, whitelist, staticBlacklist, dynamicBlacklist>>
    /\ UNCHANGED <<changeVars, ctlVars, providerVars, zone, inflight>>

\* the filters the resolver is built over: no list at all, and a whitelist
\* with a blacklisted host inside it
ResolveConfigs ==
    { << <<>>, <<>> >>,
      << <<Str(4, 1, 1)>>, <<Str(4, 1, AddrBits)>> >> }

InitResolve ==
    /\ \E cfg \in ResolveConfigs :
          /\ whitelist = parseCIDRs(cfg[1]).nets
          /\ staticBlacklist = parseCIDRs(cfg[2]).nets
    /\ filterState = "ok"
    /\ dynamicBlacklist = <<>>
    /\ ret = NoRet
    /\ ipFilteredTotal = [h \in Hostnames |-> 0]
    /\ lastSeen = [h \in Hostnames |-> Unseen]
    /\ dnsResolutionChangesTotal = [h \in Hostnames |-> 0]
    /\ InitCtl
    /\ InitZoneIdle
    /\ InitProviderIdle

NextResolve ==
    \/ \E cidrs \in DynamicInputs : SetDynamicBlacklist(cidrs)
    \/ \E h \in Hostnames, inner \in InnerOutcomes : Resolve(h, inner)

SpecResolve == InitResolve /\ [][NextResolve]_vars

-----------------------------------------------------------------------------
(* unnamed/part_002: the IPFilter without a dynamic blacklist and the       *)
(* FilteringResolver that tracks resolution changes per hostname.  Its      *)
(* IPFilter.whitelist is held in whitelist, its IPFilter.blacklist in       *)
(* staticBlacklist.                                                         *)

blacklist == staticBlacklist

IsAllowedCD(cidr) ==
    LET p == ParseCIDR(cidr)
    IN  IF p.err THEN FALSE
        ELSE IF InAny(blacklist, p.ip) THEN FALSE
        ELSE IF Len(whitelist) > 0 THEN InAny(whitelist, p.ip)
        ELSE TRUE

\* the order sort.Strings puts the strings in
StrKey(s) == (s.fam * (2 ^ AddrBits) + s.addr) * (AddrBits + 2) + s.plen

RECURSIVE insertSorted(_, _, _)
insertSorted(c, x, i) ==
    IF i > Len(c) THEN Append(c, x)
    ELSE IF StrKey(x) < StrKey(c[i])
         THEN SubSeq(c, 1, i - 1) \o <<x>> \o SubSeq(c, i, Len(c))
         ELSE insertSorted(c, x, i + 1)

RECURSIVE sortStrings(_, _, _)
sortStrings(s, i, c) ==
    IF i > Len(s) THEN c ELSE sortStrings(s, i + 1, insertSorted(c, s[i], 1))

copyAndSort(s) == sortStrings(s, 1, <<>>)

stringSlicesEqual(a, b) ==
    IF Len(a) # Len(b) THEN FALSE
    ELSE LET bs == copyAndSort(b)
         IN  \A i \in 1 .. Len(a) : a[i] = bs[i]

RECURSIVE allowedFromCD(_, _, _)
allowedFromCD(cidrs, i, allowed) ==
    IF i > Len(cidrs) THEN allowed
    ELSE allowedFromCD(cidrs, i + 1,
                       IF IsAllowedCD(cidrs[i]) THEN Append(allowed, cidrs[i]) ELSE allowed)

\* Resolve dropping the baseline of a hostname that fails to resolve
ResolveCD_ForgetsOnError(hostname, inner) ==
    /\ filterState = "ok"
    /\ IF inner.err
       THEN /\ ret' = Ret("ResolveCD", hostname, TRUE, <<>>)
            /\ lastSeen' = [lastSeen EXCEPT ![hostname] = Unseen]
            /\ UNCHANGED <<ipFilteredTotal, dnsResolutionChangesTotal>>
       ELSE LET allowed == allowedFromCD(inner.cidrs, 1, <<>>)
                prev == lastSeen[hostname].cidrs
                seen == lastSeen[hostname].seen
                changed == seen /\ ~stringSlicesEqual(prev, allowed)
            IN  /\ ipFilteredTotal[hostname] + (Len(inner.cidrs) - Len(allowed)) <= MaxCount
                /\ changed => dnsResolutionChangesTotal[hostname] < MaxCount
                /\ ipFilteredTotal' =
                       [ipFilteredTotal EXCEPT ![hostname] = @ + (Len(inner.cidrs) - Len(allowed))]
                /\ dnsResolutionChangesTotal' =
                       [dnsResolutionChangesTotal EXCEPT
                            ![hostname] = IF changed THEN @ + 1 ELSE @]
                /\ lastSeen' =
                       [lastSeen EXCEPT
                            ![hostname] = [seen |-> TRUE, cidrs |-> copyAndSort(allowed)]]
                /\ ret' = Ret("ResolveCD", hostname, FALSE, allowed)
    /\ UNCHANGED <<filterState, whitelist, staticBlacklist, dynamicBlacklist>>
    /\ UNCHANGED <<ctlVars, providerVars, zone, inflight>>

\* Resolve of unnamed/part_002: filtering, then change detection
ResolveCD(hostname, inner) ==
    /\ filterState = "ok"
    /\ IF inner.err
       THEN /\ ret' = Ret("ResolveCD", hostname, TRUE, <<>>)
            /\ UNCHANGED <<ipFilteredTotal, lastSeen, dnsResolutionChangesTotal>>
       ELSE LET allowed == allowedFromCD(inner.cidrs, 1, <<>>)
                prev == lastSeen[hostname].cidrs
                seen == lastSeen[hostname].seen
                changed == seen /\ ~stringSlicesEqual(prev, allowed)
            IN  /\ ipFilteredTotal[hostname] + (Len(inner.cidrs) - Len(allowed)) <= MaxCount
                /\ changed => dnsResolutionChangesTotal[hostname] < MaxCount
                /\ ipFilteredTotal' =
                       [ipFilteredTotal EXCEPT ![hostname] = @ + (Len(inner.cidrs) - Len(allowed))]
                /\ dnsResolutionChangesTotal' =
                       [dnsResolutionChangesTotal EXCEPT
                            ![hostname] = IF changed THEN @ + 1 ELSE @]
                /\ lastSeen' =
                       [lastSeen EXCEPT
                            ![hostname] = [seen |-> TRUE, cidrs |-> copyAndSort(allowed)]]
                /\ ret' = Ret("ResolveCD", hostname, FALSE, allowed)
    /\ UNCHANGED <<filterState, whitelist, staticBlacklist, dynamicBlacklist>>
    /\ UNCHANGED <<ctlVars, providerVars, zone, inflight>>

InitCD ==
    /\ \E cfg \in ResolveConfigs :
          /\ whitelist = parseCIDRs(cfg[1]).nets
          /\ staticBlacklist = parseCIDRs(cfg[2]).nets
    /\ filterState = "ok"
    /\ dynamicBlacklist = <<>>
    /\ ret = NoRet
    /\ ipFilteredTotal = [h \in Hostnames |-> 0]
    /\ lastSeen = [h \in Hostnames |-> Unseen]
    /\ dnsResolutionChangesTotal = [h \in Hostnames |-> 0]
    /\ InitCtl
    /\ InitZoneIdle
    /\ InitProviderIdle

NextCD == \E h \in Hostnames, inner \in InnerOutcomes : ResolveCD(h, inner)

SpecCD == InitCD /\ [][NextCD]_vars

\* The same Resolve called from several goroutines.  Inner.Resolve and the
\* filtering run outside the mutex (part_002:98-111); what follows runs under
\* it (114-128) and is one step.

\* what the inner resolver answers in this setting: an error or a short list
ShortAnswers == {inner \in InnerOutcomes : Len(inner.cidrs) <= 1}

\* lines 98-111: the call asks the inner resolver, filters and counts
ResolveBegin(p, hostname) ==
    /\ filterState = "ok"
    /\ ~inflight[p].busy
    /\ LET inner == zone.answers[hostname]
       IN  IF inner.err
           THEN UNCHANGED <<ipFilteredTotal, inflight>>
           ELSE LET allowed == allowedFromCD(inner.cidrs, 1, <<>>)
                IN  /\ ipFilteredTotal[hostname] + (Len(inner.cidrs) - Len(allowed)) <= MaxCount
                    /\ ipFilteredTotal' =
                           [ipFilteredTotal EXCEPT
                                ![hostname] = @ + (Len(inner.cidrs) - Len(allowed))]
                    /\ inflight' = [inflight EXCEPT
                                       ![p] = [busy |-> TRUE, hostname |-> hostname,
                                               allowed |-> allowed]]
    /\ UNCHANGED <<filterVars, changeVars, ctlVars, providerVars, zone>>

\* lines 114-130: under the mutex the call compares with the baseline, counts
\* the change, stores the new baseline; then it returns
ResolveEnd(p) ==
    /\ inflight[p].busy
    /\ LET hostname == inflight[p].hostname
           allowed == inflight[p].allowed
           prev == lastSeen[hostname].cidrs
           seen == lastSeen[hostname].seen
           changed == seen /\ ~stringSlicesEqual(prev, allowed)
       IN  \* the change counter is followed one step past MaxCount
           /\ changed => dnsResolutionChangesTotal[hostname] <= MaxCount
           /\ dnsResolutionChangesTotal' =
                  [dnsResolutionChangesTotal EXCEPT
                       ![hostname] = IF changed THEN @ + 1 ELSE @]
           /\ lastSeen' =
                  [lastSeen EXCEPT
                       ![hostname] = [seen |-> TRUE, cidrs |-> copyAndSort(allowed)]]
    /\ inflight' = [inflight EXCEPT ![p] = Idle]
    /\ UNCHANGED <<filterVars, ipFilteredTotal, ctlVars, providerVars, zone>>

\* the answer for one hostname changes; the zone changes MaxCount times at most
ChangeAnswer(hostname, inner) ==
    /\ inner # zone.answers[hostname]
    /\ zone.serial < MaxCount
    /\ zone' = [serial |-> zone.serial + 1,
                answers |-> [zone.answers EXCEPT ![hostname] = inner]]
    /\ UNCHANGED <<filterVars, ipFilteredTotal, changeVars, ctlVars, providerVars, inflight>>

InitCalls ==
    /\ \E cfg \in ResolveConfigs :
          /\ whitelist = parseCIDRs(cfg[1]).nets
          /\ staticBlacklist = parseCIDRs(cfg[2]).nets
    /\ filterState = "ok"
    /\ dynamicBlacklist = <<>>
    /\ ret = NoRet
    /\ ipFilteredTotal = [h \in Hostnames |-> 0]
    /\ lastSeen = [h \in Hostnames |-> Unseen]
    /\ dnsResolutionChangesTotal = [h \in Hostnames |-> 0]
    /\ InitCtl
    /\ InitProviderIdle
    /\ zone \in [serial : {0}, answers : [Hostnames -> ShortAnswers]]
    /\ inflight = [p \in Callers |-> Idle]

NextCalls ==
    \/ \E p \in Callers, h \in Hostnames : ResolveBegin(p, h)
    \/ \E p \in Callers : ResolveEnd(p)
    \/ \E h \in Hostnames, inner \in ShortAnswers : ChangeAnswer(h, inner)

SpecCalls == InitCalls /\ [][NextCalls]_vars

-----------------------------------------------------------------------------
(* internal/dns/resolver.go: NetResolver over net.DefaultResolver, whose    *)
(* answer is the environment's choice.  An address string is the record of  *)
(* how it is written: dotted (4), with colons (6) or neither (0).           *)

Addr(fam, addr) == [fam |-> fam, addr |-> addr]

NotAnIP == Addr(0, 0)       \* "not-an-ip", or an address with a zone

\* the strings LookupHost answers with
LookupPool == { Addr(f, a) : f \in Families, a \in AddrSpace } \cup { NotAnIP }

\* what LookupHost returns: an error, or a list of address strings
LookupOutcomes ==
    { [err |-> TRUE, addrs |-> <<>>] }
        \cup { [err |-> FALSE, addrs |-> a] : a \in SeqsUpTo(LookupPool, MaxAnswers) }

\* toCIDR: "" when net.ParseIP rejects the string, else the string with the
\* full prefix length of its family (/32, /128) appended
toCIDR(addr) ==
    IF addr.fam \notin Families \/ addr.addr \notin AddrSpace THEN EmptyString
    ELSE Str(addr.fam, addr.addr, AddrBits)

RECURSIVE cidrsFrom(_, _, _)
cidrsFrom(addrs, i, cidrs) ==
    IF i > Len(addrs) THEN cidrs
    ELSE cidrsFrom(addrs, i + 1,
                   IF toCIDR(addrs[i]) # EmptyString
                   THEN Append(cidrs, toCIDR(addrs[i])) ELSE cidrs)

\* NetResolver.Resolve
NetResolve(hostname, lookup) ==
    /\ ret' = IF lookup.err
              THEN Ret("NetResolve", <<hostname, lookup>>, TRUE, <<>>)
              ELSE Ret("NetResolve", <<hostname, lookup>>, FALSE,
                       sortStrings(cidrsFrom(lookup.addrs, 1, <<>>), 1, <<>>))
    /\ UNCHANGED <<filterState, whitelist, staticBlacklist, dynamicBlacklist>>
    /\ UNCHANGED notFilterVars

NextNetResolver == \E h \in Hostnames, lookup \in LookupOutcomes : NetResolve(h, lookup)

\* a NetResolver has no fields; no call has been made
InitNetResolver ==
    /\ filterState = "none"
    /\ whitelist = <<>>
    /\ staticBlacklist = <<>>
    /\ dynamicBlacklist = <<>>
    /\ ret = NoRet
    /\ ipFilteredTotal = [h \in Hostnames |-> 0]
    /\ lastSeen = [h \in Hostnames |-> Unseen]
    /\ dnsResolutionChangesTotal = [h \in Hostnames |-> 0]
    /\ InitCtl
    /\ InitZoneIdle
    /\ InitProviderIdle

SpecNetResolver == InitNetResolver /\ [][NextNetResolver]_vars

-----------------------------------------------------------------------------
(* internal/controller/networkpolicy_controller.go                          *)
(* Reconcile is written against the dns.Resolver interface: what each       *)
(* Resolve call of a pass returns is the environment's choice, and so is    *)
(* which call on the API server fails.                                      *)

\* what r.Resolver.Resolve returns for a hostname: an error, no address, or
\* the addresses of that hostname (two for a.example, another one for b.example)
ResolverOutcomes(hostname) ==
    { [err |-> TRUE, cidrs |-> <<>>],
      [err |-> FALSE, cidrs |-> <<>>],
      [err |-> FALSE,
       cidrs |-> IF hostname = "b.example"
                 THEN <<Str(4, 2, AddrBits)>>
                 ELSE <<Str(4, 1, AddrBits), Str(4, 0, AddrBits)>>] }

\* the call on the API server that fails in a pass, if any
ApiFailures == {"none", "getSource", "getDerived", "create", "update", "status"}

\* the hostnames of a spec in the order Reconcile resolves them
RECURSIVE hostnamesFrom(_, _)
hostnamesFrom(egress, r) ==
    IF r > Len(egress) THEN <<>> ELSE egress[r].to \o hostnamesFrom(egress, r + 1)

Occurrences(egress) == hostnamesFrom(egress, 1)

\* the number of Resolve calls made before rule r
RECURSIVE callsBefore(_, _)
callsBefore(egress, r) ==
    IF r = 1 THEN 0 ELSE callsBefore(egress, r - 1) + Len(egress[r - 1].to)

IPBlock(cidr) == [ipBlock |-> [cidr |-> cidr]]

RECURSIVE peersFrom_BreaksOnError(_, _, _, _, _)
peersFrom_BreaksOnError(to, outs, off, j, peers) ==
    IF j > Len(to) THEN peers
    ELSE LET o == outs[off + j]
         IN  IF o.err THEN peers
             ELSE peersFrom_BreaksOnError(to, outs, off, j + 1,
                            peers \o [i \in 1 .. Len(o.cidrs) |-> IPBlock(o.cidrs[i])])

\* the inner loop of Reconcile over rule.To, from its j-th entry on
RECURSIVE peersFrom(_, _, _, _, _)
peersFrom(to, outs, off, j, peers) ==
    IF j > Len(to) THEN peers
    ELSE LET o == outs[off + j]
         IN  IF o.err THEN peersFrom(to, outs, off, j + 1, peers)
             ELSE peersFrom(to, outs, off, j + 1,
                            peers \o [i \in 1 .. Len(o.cidrs) |-> IPBlock(o.cidrs[i])])

convertPorts_DropsEndPort(ports) ==
    [i \in 1 .. Len(ports) |->
        [protocol |-> ports[i].protocol, port |-> ports[i].port, endPort |-> 0]]

convertPorts(ports) ==
    [i \in 1 .. Len(ports) |->
        [protocol |-> ports[i].protocol, port |-> ports[i].port, endPort |-> ports[i].endPort]]

\* a rule that got no peer is left out
egressRulesOf_SkipsEmptyRules(egress, outs) ==
    SelectSeq([r \in 1 .. Len(egress) |->
                  [ports |-> convertPorts(egress[r].ports),
                   to    |-> peersFrom(egress[r].to, outs, callsBefore(egress, r), 1, <<>>)]],
              LAMBDA rule : rule.to # <<>>)

\* the outer loop of Reconcile over anp.Spec.Egress
egressRulesOf(egress, outs) ==
    [r \in 1 .. Len(egress) |->
        [ports |-> convertPorts(egress[r].ports),
         to    |-> peersFrom(egress[r].to, outs, callsBefore(egress, r), 1, <<>>)]]

\* resolvedAddresses[to.Hostname] = cidrs, for every call that succeeds
RECURSIVE resolvedFrom(_, _, _, _)
resolvedFrom(occ, outs, k, m) ==
    IF k > Len(occ) THEN m
    ELSE IF outs[k].err THEN resolvedFrom(occ, outs, k + 1, m)
    ELSE resolvedFrom(occ, outs, k + 1,
                      [h \in (DOMAIN m) \cup {occ[k]} |->
                          IF h = occ[k] THEN outs[k].cidrs ELSE m[h]])

RECURSIVE errorsFrom_Prepends(_, _, _, _)
errorsFrom_Prepends(occ, outs, k, errs) ==
    IF k > Len(occ) THEN errs
    ELSE errorsFrom_Prepends(occ, outs, k + 1,
                    IF outs[k].err THEN <<occ[k]>> \o errs ELSE errs)

\* resolutionErrors: one entry per failed call, naming its hostname
RECURSIVE errorsFrom(_, _, _, _)
errorsFrom(occ, outs, k, errs) ==
    IF k > Len(occ) THEN errs
    ELSE errorsFrom(occ, outs, k + 1,
                    IF outs[k].err THEN Append(errs, occ[k]) ELSE errs)

RECURSIVE indexOfType(_, _, _)
indexOfType(conditions, type, i) ==
    IF i > Len(conditions) THEN 0
    ELSE IF conditions[i].type = type THEN i
    ELSE indexOfType(conditions, type, i + 1)

\* setCondition appending without looking for a record of the type
setCondition_AlwaysAppends(conditions, condition) == Append(conditions, condition)

\* setCondition taking the new record whole whether the status changed or not
setCondition_AlwaysRefreshes(conditions, condition) ==
    LET i == indexOfType(conditions, condition.type, 1)
    IN  IF i = 0 THEN Append(conditions, condition)
        ELSE [conditions EXCEPT ![i] = condition]

setCondition(conditions, condition) ==
    LET i == indexOfType(conditions, condition.type, 1)
    IN  IF i = 0 THEN Append(conditions, condition)
        ELSE IF conditions[i].status # condition.status
             THEN [conditions EXCEPT ![i] = condition]
             ELSE [conditions EXCEPT
                      ![i] = [condition EXCEPT
                                 !.lastTransitionTime = conditions[i].lastTransitionTime]]

requeueInterval_NoClamp(spec) ==
    IF spec.resolutionInterval.set
    THEN spec.resolutionInterval.seconds
    ELSE defaultResolutionInterval

requeueInterval(spec) ==
    LET interval == IF spec.resolutionInterval.set
                    THEN spec.resolutionInterval.seconds
                    ELSE defaultResolutionInterval
    IN  IF interval < minResolutionInterval THEN minResolutionInterval ELSE interval

specChanged_Always(existing, desired) == TRUE

\* !equality.Semantic.DeepEqual(existing.Spec, desired.Spec)
\* the comparison finding the specs equal whatever they are
specChanged_Never(existing, desired) == FALSE

specChanged(existing, desired) == existing.spec # desired.spec

\* what a pass returns and what it did
Res(fail, notFound, err, requeueAfter, calls, wrote, statusWritten) ==
    [fail |-> fail, notFound |-> notFound,
     err |-> err, requeueAfter |-> requeueAfter, calls |-> calls, wrote |-> wrote,
     statusWritten |-> statusWritten]

\* what a pass leaves: the two objects, the three counters, what it returned;
\* reached says that the pass got to the call that was chosen to fail
Outcome(a, n, created, deleted, changed, r, reached) ==
    [anp |-> a, np |-> n, creations |-> created, deletions |-> deleted,
     changes |-> changed, res |-> r, reached |-> reached]

\* what the pass wrote and counted is taken back when it fails
Failed_RollsBack(s, fail, calls, n, created, changed, wrote) ==
    Outcome(s.anp, s.np, s.creations, s.deletions, s.changes,
            Res(fail, FALSE, TRUE, 0, calls, "none", FALSE), TRUE)

\* the counter of the call is raised before the call's error is looked at
Failed_CountsTheCall(s, fail, calls, n, created, changed, wrote) ==
    Outcome(s.anp, n, created + (IF fail = "create" THEN 1 ELSE 0), s.deletions,
            changed + (IF fail = "update" THEN 1 ELSE 0),
            Res(fail, FALSE, TRUE, 0, calls, wrote, FALSE), TRUE)

\* a pass that returns an error from the objects and counters s, having
\* written the derived object n and counted created and changed
Failed(s, fail, calls, n, created, changed, wrote) ==
    Outcome(s.anp, n, created, s.deletions, changed,
            Res(fail, FALSE, TRUE, 0, calls, wrote, FALSE), TRUE)

sourceNotFound_Requeues(s, fail) ==
    Outcome(s.anp, s.np, s.creations, s.deletions + 1, s.changes,
            Res(fail, TRUE, FALSE, defaultResolutionInterval, <<>>, "none", FALSE),
            fail = "none")

\* the source policy is gone: count the deletion and return
sourceNotFound(s, fail) ==
    Outcome(s.anp, s.np, s.creations, s.deletions + 1, s.changes,
            Res(fail, TRUE, FALSE, 0, <<>>, "none", FALSE), fail = "none")

\* the objects in the API server and the counters, as a pass finds them
Stored ==
    [anp |-> anp, np |-> np, creations |-> networkPolicyCreations,
     deletions |-> networkPolicyDeletions, changes |-> dnsNameChanges]

\* the times metav1.Now() can return in a pass: the clock never runs backwards
ClockReadings ==
    {t \in 0 .. MaxTime :
        \A i \in 1 .. Len(anp.status.conditions) :
            anp.status.conditions[i].lastTransitionTime <= t}

\* Reconcile run on the objects and counters s
reconcileFrom(s, outs, fail, t) ==
    IF fail = "getSource"
    THEN Failed(s, fail, <<>>, s.np, s.creations, s.changes, "none")
    ELSE IF ~s.anp.exists
    THEN sourceNotFound(s, fail)
    ELSE
    LET occ == Occurrences(s.anp.spec.egress)
        resolvedAddresses == resolvedFrom(occ, outs, 1, EmptyMap)
        resolutionErrors == errorsFrom(occ, outs, 1, <<>>)
        desired == [exists |-> TRUE,
                    spec |-> [podSelector |-> s.anp.spec.podSelector,
                              egress |-> egressRulesOf(s.anp.spec.egress, outs),
                              policyTypes |-> s.anp.spec.policyTypes],
                    ownerReferences |-> <<[controller |-> TRUE, name |-> "anp"]>>]
        create == ~s.np.exists
        update == s.np.exists /\ specChanged(s.np, desired)
        wrote == IF create THEN "create" ELSE IF update THEN "update" ELSE "none"
        n == IF create THEN desired
             ELSE IF update THEN [s.np EXCEPT !.spec = desired.spec]
             ELSE s.np
        created == s.creations + (IF create THEN 1 ELSE 0)
        changed == s.changes + (IF update THEN 1 ELSE 0)
        condition ==
            IF Len(resolutionErrors) > 0
            THEN [type |-> conditionTypeReady, status |-> "False",
                  reason |-> "ResolutionFailed",
                  message |-> <<"failed to resolve some hostnames", resolutionErrors>>,
                  observedGeneration |-> s.anp.generation, lastTransitionTime |-> t]
            ELSE [type |-> conditionTypeReady, status |-> "True",
                  reason |-> "Reconciled",
                  message |-> <<"All hostnames resolved successfully", <<>>>>,
                  observedGeneration |-> s.anp.generation, lastTransitionTime |-> t]
        status == [conditions |-> setCondition(s.anp.status.conditions, condition),
                   resolvedAddresses |-> resolvedAddresses]
    IN  IF fail = "getDerived"
        THEN Failed(s, fail, occ, s.np, s.creations, s.changes, "none")
        ELSE IF (create /\ fail = "create") \/ (update /\ fail = "update")
        THEN Failed(s, fail, occ, s.np, s.creations, s.changes, "none")
        ELSE IF fail = "status"
        THEN Failed(s, fail, occ, n, created, changed, wrote)
        ELSE Outcome([s.anp EXCEPT !.status = status], n, created,
                     s.deletions, changed,
                     Res(fail, FALSE, FALSE, requeueInterval(s.anp.spec), occ, wrote, TRUE),
                     fail = "none")

reconcile(outs, fail, t) == reconcileFrom(Stored, outs, fail, t)

Reconcile(outs, fail, t) ==
    \E o \in {reconcile(outs, fail, t)} :
        /\ o.reached
        /\ o.creations + o.deletions + o.changes <= MaxEvents
        /\ anp' = o.anp
        /\ np' = o.np
        /\ networkPolicyCreations' = o.creations
        /\ networkPolicyDeletions' = o.deletions
        /\ dnsNameChanges' = o.changes
        /\ UNCHANGED dnsVars

\* a user creates the source policy
CreateSource(spec) ==
    /\ ~anp.exists
    /\ anp' = [exists |-> TRUE, spec |-> spec, generation |-> 1, status |-> NoStatus]
    /\ UNCHANGED <<np, networkPolicyCreations, networkPolicyDeletions, dnsNameChanges, dnsVars>>

\* a user changes the source policy's spec
UpdateSource(spec) ==
    /\ anp.exists
    /\ spec # anp.spec
    /\ anp.generation < MaxGeneration
    /\ anp' = [anp EXCEPT !.spec = spec, !.generation = @ + 1]
    /\ UNCHANGED <<np, networkPolicyCreations, networkPolicyDeletions, dnsNameChanges, dnsVars>>

\* a user deletes the source policy
DeleteSource ==
    /\ anp.exists
    /\ anp' = NoANP
    /\ UNCHANGED <<np, networkPolicyCreations, networkPolicyDeletions, dnsNameChanges, dnsVars>>

\* the garbage collector removes the derived policy whose owner is gone
GarbageCollect ==
    /\ np.exists
    /\ np.ownerReferences # <<>>
    /\ ~anp.exists
    /\ np' = NoNP
    /\ UNCHANGED <<anp, networkPolicyCreations, networkPolicyDeletions, dnsNameChanges, dnsVars>>

InitReconcile ==
    /\ InitCtl
    /\ InitZoneIdle
    /\ InitProviderIdle
    /\ filterState = "none"
    /\ whitelist = <<>>
    /\ staticBlacklist = <<>>
    /\ dynamicBlacklist = <<>>
    /\ ret = NoRet
    /\ ipFilteredTotal = [h \in Hostnames |-> 0]
    /\ lastSeen = [h \in Hostnames |-> Unseen]
    /\ dnsResolutionChangesTotal = [h \in Hostnames |-> 0]

\* the answers the resolver can give to the Resolve calls of a pass over the
\* stored source policy
PassAnswers ==
    LET occ == Occurrences(anp.spec.egress)
    IN  {outs \in [1 .. Len(occ) -> UNION {ResolverOutcomes(h) : h \in Hostnames}] :
            \A k \in 1 .. Len(occ) : outs[k] \in ResolverOutcomes(occ[k])}

\* A pass that fails before its status update has written nothing and counted
\* nothing, whatever was resolved: one list of answers stands for all.
AnswersBefore(fail) ==
    IF fail \in {"none", "status"} THEN PassAnswers
    ELSE {[k \in 1 .. Len(Occurrences(anp.spec.egress)) |-> [err |-> TRUE, cidrs |-> <<>>]]}

NextReconcile ==
    \/ \E fail \in ApiFailures :
          \E outs \in AnswersBefore(fail) :
              \* only a pass that persists the status keeps its clock reading
              \E t \in IF fail = "none" THEN ClockReadings ELSE {0} :
                  Reconcile(outs, fail, t)
    \/ \E spec \in SourceSpecs : CreateSource(spec)
    \/ \E spec \in SourceSpecs : UpdateSource(spec)
    \/ DeleteSource
    \/ GarbageCollect

SpecReconcile == InitReconcile /\ [][NextReconcile]_vars

\* a policy a user wrote by hand: egress to nowhere for the same pods
UserPolicySpec == [podSelector |-> "app=web", egress |-> <<>>, policyTypes |-> <<"Egress">>]

\* a user creates a networking.k8s.io NetworkPolicy under the name a source
\* policy has or will have
CreateDerivedByUser ==
    /\ ~np.exists
    /\ np' = [exists |-> TRUE, spec |-> UserPolicySpec, ownerReferences |-> <<>>]
    /\ UNCHANGED <<anp, networkPolicyCreations, networkPolicyDeletions, dnsNameChanges, dnsVars>>

\* a user deletes the NetworkPolicy of that name
DeleteDerivedByUser ==
    /\ np.exists
    /\ np' = NoNP
    /\ UNCHANGED <<anp, networkPolicyCreations, networkPolicyDeletions, dnsNameChanges, dnsVars>>

\* the controller in a namespace where users write NetworkPolicies too
NextShared ==
    \/ NextReconcile
    \/ CreateDerivedByUser
    \/ DeleteDerivedByUser

SpecShared == InitReconcile /\ [][NextShared]_vars

\* The controller over a DNS that answers from a zone.  What the resolver
\* gives for a hostname is what the zone holds for it until the zone changes.
ZoneAnswers ==
    {z \in [Hostnames -> UNION {ResolverOutcomes(h) : h \in Hostnames}] :
        \A h \in Hostnames : z[h] \in ResolverOutcomes(h)}

\* the answers to the Resolve calls of a pass over the stored source policy
zoneOuts ==
    LET occ == Occurrences(anp.spec.egress)
    IN  [k \in 1 .. Len(occ) |-> zone.answers[occ[k]]]

\* The zone and the source spec change a bounded number of times, so that the
\* controller's counters stay within MaxEvents: every change costs one update
\* at most, and the first pass one creation.
ChangesSoFar == zone.serial + (IF anp.exists THEN anp.generation - 1 ELSE 0)

\* the owner of the zone changes an answer
ChangeZone(z) ==
    /\ z # zone.answers
    /\ ChangesSoFar < MaxEvents - 1
    /\ zone' = [serial |-> zone.serial + 1, answers |-> z]
    /\ UNCHANGED <<filterVars, ipFilteredTotal, changeVars, providerVars, ctlVars, inflight>>

UpdateSourceInZone(spec) ==
    /\ ChangesSoFar < MaxEvents - 1
    /\ UpdateSource(spec)

\* a pass for the existing source policy in which every API call succeeds
ReconcileInZone ==
    /\ anp.exists
    /\ \E t \in ClockReadings : Reconcile(zoneOuts, "none", t)

InitZone ==
    /\ InitCtl
    /\ InitProviderIdle
    /\ filterState = "none"
    /\ whitelist = <<>>
    /\ staticBlacklist = <<>>
    /\ dynamicBlacklist = <<>>
    /\ ret = NoRet
    /\ ipFilteredTotal = [h \in Hostnames |-> 0]
    /\ lastSeen = [h \in Hostnames |-> Unseen]
    /\ dnsResolutionChangesTotal = [h \in Hostnames |-> 0]
    /\ zone \in [serial : {0}, answers : ZoneAnswers]
    /\ inflight = [p \in Callers |-> Idle]

NextZone ==
    \/ ReconcileInZone
    \/ \E spec \in SourceSpecs : CreateSource(spec)
    \/ \E spec \in SourceSpecs : UpdateSourceInZone(spec)
    \/ \E z \in ZoneAnswers : ChangeZone(z)

\* every pass without error asks to be run again after the requeue interval
SpecZone == InitZone /\ [][NextZone]_vars /\ WF_vars(ReconcileInZone)

-----------------------------------------------------------------------------
(* The filter on its own: construction, replacement of the dynamic          *)
(* blacklist, queries.                                                      *)

InitFilter ==
    /\ filterState = "none"
    /\ whitelist = <<>>
    /\ staticBlacklist = <<>>
    /\ dynamicBlacklist = <<>>
    /\ ret = NoRet
    /\ ipFilteredTotal = [h \in Hostnames |-> 0]
    /\ lastSeen = [h \in Hostnames |-> Unseen]
    /\ dnsResolutionChangesTotal = [h \in Hostnames |-> 0]
    /\ InitCtl
    /\ InitZoneIdle
    /\ InitProviderIdle

NextFilter ==
    \/ \E wl \in StaticInputs, bl \in StaticInputs : NewIPFilter(wl, bl)
    \/ \E cidrs \in DynamicInputs : SetDynamicBlacklist(cidrs)
    \/ \E cidr \in QueryStrings : IsAllowedCall(cidr)

SpecFilter == InitFilter /\ [][NextFilter]_vars

\* The filter of unnamed/part_002 on its own.  Its NewIPFilter is the one
\* above less the dynamic blacklist, which stays empty here.
IsAllowedCDCall(cidr) ==
    /\ filterState = "ok"
    /\ ret' = Ret("IsAllowedCD", cidr, FALSE, IsAllowedCD(cidr))
    /\ UNCHANGED <<filterState, whitelist, staticBlacklist, dynamicBlacklist>>
    /\ UNCHANGED notFilterVars

NextFilterCD ==
    \/ \E wl \in StaticInputs, bl \in StaticInputs : NewIPFilter(wl, bl)
    \/ \E cidr \in QueryStrings : IsAllowedCDCall(cidr)

SpecFilterCD == InitFilter /\ [][NextFilterCD]_vars

-----------------------------------------------------------------------------
(* internal/dns/podcidr.go: the provider of the dynamic blacklist.          *)

MaxNodes == 2       \* longest node list Client.List returns
MaxTicks == 2       \* the ticker is followed up to this many ticks

\* corev1.Node, its Spec.PodCIDRs and Spec.PodCIDR
Node(podCIDRs, podCIDR) == [podCIDRs |-> podCIDRs, podCIDR |-> podCIDR]

\* the nodes of a cluster: single-stack, dual-stack, one with the single
\* field only, one without a range, one whose range does not parse
NodePool ==
    { Node(<<Str(4, 1, AddrBits)>>, Str(4, 1, AddrBits)),
      Node(<<Str(4, 3, 1), Str(6, 0, 0)>>, Str(4, 3, 1)),
      Node(<<>>, Str(4, 3, 1)),
      Node(<<>>, EmptyString),
      Node(<<BadPrefix>>, BadPrefix) }

\* what Client.List gives: an error, or the nodes
NodeLists ==
    { [err |-> TRUE, items |-> <<>>] }
        \cup { [err |-> FALSE, items |-> q] : q \in SeqsUpTo(NodePool, MaxNodes) }

\* the ranges of one node taking the single field first
podCIDRsOf_PrefersSingle(node) ==
    IF node.podCIDR # EmptyString THEN <<node.podCIDR>> ELSE node.podCIDRs

\* the ranges of one node: Spec.PodCIDRs, or Spec.PodCIDR when the list is empty
podCIDRsOf(node) ==
    IF Len(node.podCIDRs) = 0 /\ node.podCIDR # EmptyString
    THEN <<node.podCIDR>>
    ELSE node.podCIDRs

\* the inner loop without the seen map
RECURSIVE appendUnseen_KeepsDuplicates(_, _, _)
appendUnseen_KeepsDuplicates(cidrs, podCIDRs, j) ==
    IF j > Len(podCIDRs) THEN cidrs
    ELSE appendUnseen_KeepsDuplicates(Append(cidrs, podCIDRs[j]), podCIDRs, j + 1)

\* the inner loop of refresh; the seen map holds exactly the elements of cidrs
RECURSIVE appendUnseen(_, _, _)
appendUnseen(cidrs, podCIDRs, j) ==
    IF j > Len(podCIDRs) THEN cidrs
    ELSE LET seen == \E k \in 1 .. Len(cidrs) : cidrs[k] = podCIDRs[j]
         IN  appendUnseen(IF seen THEN cidrs ELSE Append(cidrs, podCIDRs[j]),
                          podCIDRs, j + 1)

\* the outer loop of refresh
RECURSIVE collectCIDRs(_, _, _)
collectCIDRs(items, i, cidrs) ==
    IF i > Len(items) THEN cidrs
    ELSE collectCIDRs(items, i + 1, appendUnseen(cidrs, podCIDRsOf(items[i]), 1))

\* refresh keeping what is installed when no node has a range
refresh_KeepsOnEmpty(listing) ==
    /\ refreshes' = refreshes + 1
    /\ nodeList' = listing
    /\ IF listing.err \/ collectCIDRs(listing.items, 1, <<>>) = <<>>
       THEN UNCHANGED filterVars
       ELSE setDynamicBlacklist(collectCIDRs(listing.items, 1, <<>>))

\* refresh installing the empty list when the nodes cannot be listed
refresh_ClearsOnListError(listing) ==
    /\ refreshes' = refreshes + 1
    /\ nodeList' = listing
    /\ setDynamicBlacklist(collectCIDRs(listing.items, 1, <<>>))

refresh(listing) ==
    /\ refreshes' = refreshes + 1
    /\ nodeList' = listing
    /\ IF listing.err
       THEN UNCHANGED filterVars
       ELSE setDynamicBlacklist(collectCIDRs(listing.items, 1, <<>>))

\* Start creating the ticker without a first refresh
StartRefresh_SkipsRefresh(listing) ==
    /\ startPc = "refresh"
    /\ startPc' = "select"
    /\ UNCHANGED <<filterVars, refreshes, nodeList, ctxDone, tickerC, ticks>>
    /\ UNCHANGED <<ipFilteredTotal, changeVars, ctlVars, zone, inflight>>

\* Start up to the creation of the ticker
StartRefresh(listing) ==
    /\ startPc = "refresh"
    /\ refresh(listing)
    /\ startPc' = "select"
    /\ UNCHANGED <<ctxDone, tickerC, ticks>>
    /\ UNCHANGED <<ipFilteredTotal, changeVars, ctlVars, zone, inflight>>

\* the ticker sends; a tick that finds the channel full is dropped
Tick ==
    /\ startPc = "select"
    /\ tickerC = 0
    /\ ticks < MaxTicks
    /\ tickerC' = 1
    /\ ticks' = ticks + 1
    /\ UNCHANGED <<startPc, ctxDone, refreshes, nodeList>>
    /\ UNCHANGED <<filterVars, ipFilteredTotal, changeVars, ctlVars, zone, inflight>>

\* a refresh that cannot list the nodes ends the loop
ReceiveTick_StopsOnError(listing) ==
    /\ startPc = "select"
    /\ tickerC = 1
    /\ tickerC' = 0
    /\ refresh(listing)
    /\ startPc' = IF listing.err THEN "returned" ELSE startPc
    /\ UNCHANGED <<ctxDone, ticks>>
    /\ UNCHANGED <<ipFilteredTotal, changeVars, ctlVars, zone, inflight>>

\* select takes the case <-ticker.C
ReceiveTick(listing) ==
    /\ startPc = "select"
    /\ tickerC = 1
    /\ tickerC' = 0
    /\ refresh(listing)
    /\ UNCHANGED <<startPc, ctxDone, ticks>>
    /\ UNCHANGED <<ipFilteredTotal, changeVars, ctlVars, zone, inflight>>

\* the loop looks at ctx.Done() only when it has a tick
ReceiveDone_WaitsForTick ==
    /\ startPc = "select"
    /\ ctxDone
    /\ tickerC = 1
    /\ startPc' = "returned"
    /\ UNCHANGED <<ctxDone, tickerC, ticks, refreshes, nodeList>>
    /\ UNCHANGED <<filterVars, ipFilteredTotal, changeVars, ctlVars, zone, inflight>>

\* select takes the case <-ctx.Done(): Start returns nil, the ticker is stopped
ReceiveDone ==
    /\ startPc = "select"
    /\ ctxDone
    /\ startPc' = "returned"
    /\ UNCHANGED <<ctxDone, tickerC, ticks, refreshes, nodeList>>
    /\ UNCHANGED <<filterVars, ipFilteredTotal, changeVars, ctlVars, zone, inflight>>

\* the owner of the context cancels it
Cancel ==
    /\ startPc # "returned"
    /\ ~ctxDone
    /\ ctxDone' = TRUE
    /\ UNCHANGED <<startPc, tickerC, ticks, refreshes, nodeList>>
    /\ UNCHANGED <<filterVars, ipFilteredTotal, changeVars, ctlVars, zone, inflight>>

\* the filters a provider is given: none configured, a static blacklist, a
\* whitelist
ProviderConfigs ==
    { << <<>>, <<>> >>,
      << <<>>, <<Str(4, 1, 1)>> >>,
      << <<Str(4, 3, 1)>>, <<>> >> }

InitProvider ==
    /\ \E cfg \in ProviderConfigs :
          /\ whitelist = parseCIDRs(cfg[1]).nets
          /\ staticBlacklist = parseCIDRs(cfg[2]).nets
    /\ filterState = "ok"
    /\ dynamicBlacklist = <<>>
    /\ ret = NoRet
    /\ ipFilteredTotal = [h \in Hostnames |-> 0]
    /\ lastSeen = [h \in Hostnames |-> Unseen]
    /\ dnsResolutionChangesTotal = [h \in Hostnames |-> 0]
    /\ InitCtl
    /\ InitZoneIdle
    /\ startPc = "refresh"
    /\ ctxDone = FALSE
    /\ tickerC = 0
    /\ ticks = 0
    /\ refreshes = 0
    /\ nodeList = NoNodeList

NextProvider ==
    \/ \E listing \in NodeLists : StartRefresh(listing)
    \/ \E listing \in NodeLists : ReceiveTick(listing)
    \/ ReceiveDone
    \/ Tick
    \/ Cancel

SpecProvider == InitProvider /\ [][NextProvider]_vars

\* Start on its own: what a refresh lists matters to the loop only as an
\* error, an empty list, a list that installs or one that does not parse
StartLists == {listing \in NodeLists : Len(listing.items) <= 1}

StartStep ==
    \/ \E listing \in StartLists : StartRefresh(listing)
    \/ \E listing \in StartLists : ReceiveTick(listing)
    \/ ReceiveDone

NextStart ==
    \/ StartStep
    \/ Tick
    \/ Cancel

\* the goroutine running Start is scheduled again and again
SpecStart == InitProvider /\ [][NextStart]_vars /\ WF_vars(StartStep)

\* IsAllowed of internal/dns/filter.go step by step, beside a provider that
\* replaces the dynamic blacklist.  A reader writes nothing shared, so one
\* reader stands for all.
Reader == 1

Call(cidr, pc, dynBL, i, verdict) ==
    [busy |-> pc # "done", cidr |-> cidr, pc |-> pc, dynBL |-> dynBL, i |-> i,
     verdict |-> verdict]

\* lines 66-77: parse, then the static blacklist
isAllowedBegin(cidr) ==
    /\ filterState = "ok"
    /\ ~inflight[Reader].busy
    /\ LET p == ParseCIDR(cidr)
       IN  inflight' =
               [inflight EXCEPT
                   ![Reader] = IF p.err THEN Call(cidr, "done", <<>>, 0, TRUE)
                               ELSE IF InAny(staticBlacklist, p.ip)
                               THEN Call(cidr, "done", <<>>, 0, FALSE)
                               ELSE Call(cidr, "rlock", <<>>, 0, FALSE)]
    /\ UNCHANGED <<filterVars, ipFilteredTotal, changeVars, ctlVars, providerVars, zone>>

\* lines 80-82: the slice is read under the read lock
isAllowedSnapshot ==
    /\ inflight[Reader].busy
    /\ inflight[Reader].pc = "rlock"
    /\ inflight' = [inflight EXCEPT
                       ![Reader] = Call(@.cidr, "scan", dynamicBlacklist, 1, FALSE)]
    /\ UNCHANGED <<filterVars, ipFilteredTotal, changeVars, ctlVars, providerVars, zone>>

\* the end of IsAllowed: lines 89-99, the whitelist
whitelistVerdict(ip) == IF Len(whitelist) > 0 THEN InAny(whitelist, ip) ELSE TRUE

\* the loop over the field of the filter instead of the slice read under the lock
isAllowedScan_ReadsShared ==
    /\ inflight[Reader].busy
    /\ inflight[Reader].pc = "scan"
    /\ LET c == inflight[Reader]
           ip == ParseCIDR(c.cidr).ip
       IN  inflight' =
               [inflight EXCEPT
                   ![Reader] =
                       IF c.i > Len(dynamicBlacklist)
                       THEN Call(c.cidr, "done", c.dynBL, c.i, whitelistVerdict(ip))
                       ELSE IF NetContains(dynamicBlacklist[c.i], ip)
                       THEN Call(c.cidr, "done", c.dynBL, c.i, FALSE)
                       ELSE Call(c.cidr, "scan", c.dynBL, c.i + 1, FALSE)]
    /\ UNCHANGED <<filterVars, ipFilteredTotal, changeVars, ctlVars, providerVars, zone>>

\* lines 83-99: one turn of the loop over dynBL, or what follows the loop
isAllowedScan ==
    /\ inflight[Reader].busy
    /\ inflight[Reader].pc = "scan"
    /\ LET c == inflight[Reader]
           ip == ParseCIDR(c.cidr).ip
       IN  inflight' =
               [inflight EXCEPT
                   ![Reader] =
                       IF c.i > Len(c.dynBL)
                       THEN Call(c.cidr, "done", c.dynBL, c.i, whitelistVerdict(ip))
                       ELSE IF NetContains(c.dynBL[c.i], ip)
                       THEN Call(c.cidr, "done", c.dynBL, c.i, FALSE)
                       ELSE Call(c.cidr, "scan", c.dynBL, c.i + 1, FALSE)]
    /\ UNCHANGED <<filterVars, ipFilteredTotal, changeVars, ctlVars, providerVars, zone>>

\* SetDynamicBlacklist lines 55-57: the parsed list is put in the field under
\* the write lock; the parsing before and the return after touch nothing shared
swapDynamicBlacklist(cidrs) ==
    /\ filterState = "ok"
    /\ ~parseCIDRs(cidrs).err
    /\ dynamicBlacklist' = parseCIDRs(cidrs).nets
    /\ UNCHANGED <<filterState, whitelist, staticBlacklist, ret>>
    /\ UNCHANGED notFilterVars

NextReaders ==
    \/ \E cidr \in QueryStrings : isAllowedBegin(cidr)
    \/ isAllowedSnapshot
    \/ isAllowedScan
    \/ \E cidrs \in DynamicInputs : swapDynamicBlacklist(cidrs)

InitReaders ==
    /\ \E cfg \in ProviderConfigs :
          /\ whitelist = parseCIDRs(cfg[1]).nets
          /\ staticBlacklist = parseCIDRs(cfg[2]).nets
    /\ filterState = "ok"
    /\ dynamicBlacklist = <<>>
    /\ ret = NoRet
    /\ ipFilteredTotal = [h \in Hostnames |-> 0]
    /\ lastSeen = [h \in Hostnames |-> Unseen]
    /\ dnsResolutionChangesTotal = [h \in Hostnames |-> 0]
    /\ InitCtl
    /\ InitZoneIdle
    /\ InitProviderIdle

SpecReaders == InitReaders /\ [][NextReaders]_vars

\* The controller over the FilteringResolver of internal/dns/filter.go: the
\* inner resolver answers from the zone, the filter holds the dynamic
\* blacklist that SetDynamicBlacklist installs.

\* FilteringResolver.Resolve handing on what the inner resolver returned
filteredAnswer_SkipsFilter(inner) == inner

\* what FilteringResolver.Resolve returns for an answer of the inner resolver
filteredAnswer(inner) ==
    IF inner.err THEN [err |-> TRUE, cidrs |-> <<>>]
    ELSE [err |-> FALSE, cidrs |-> allowedFrom(inner.cidrs, 1, <<>>)]

\* the answers of the inner resolver to the Resolve calls of a pass
innerOuts ==
    LET occ == Occurrences(anp.spec.egress)
    IN  [k \in 1 .. Len(occ) |-> zone.answers[occ[k]]]

\* what the controller gets from its Resolve calls
filteredOuts == [k \in DOMAIN innerOuts |-> filteredAnswer(innerOuts[k])]

\* ipFilteredTotal after the calls k, k + 1, ... of a pass; the model keeps
\* the count up to MaxCount and holds it at MaxCount + 1 beyond
RECURSIVE filteredFrom(_, _, _)
filteredFrom(occ, k, total) ==
    IF k > Len(occ) THEN total
    ELSE LET inner == innerOuts[k]
             dropped == IF inner.err THEN 0
                        ELSE Len(inner.cidrs) - Len(filteredAnswer(inner).cidrs)
             count == IF total[occ[k]] + dropped > MaxCount THEN MaxCount + 1
                      ELSE total[occ[k]] + dropped
         IN  filteredFrom(occ, k + 1, [total EXCEPT ![occ[k]] = count])

\* a pass whose Resolve calls go through the filter
ReconcileFiltered(fail, t) ==
    /\ anp.exists
    /\ \E outs \in {filteredOuts} : \E o \in {reconcile(outs, fail, t)} :
        /\ o.reached
        /\ o.creations + o.deletions + o.changes <= MaxEvents
        /\ anp' = o.anp
        /\ np' = o.np
        /\ networkPolicyCreations' = o.creations
        /\ networkPolicyDeletions' = o.deletions
        /\ dnsNameChanges' = o.changes
        /\ ipFilteredTotal' = filteredFrom(Occurrences(anp.spec.egress), 1, ipFilteredTotal)
        /\ UNCHANGED <<filterVars, changeVars, providerVars, zone, inflight>>

\* the pass in which every call on the API server succeeds
ReconcileFilteredOk == \E t \in ClockReadings : ReconcileFiltered("none", t)

\* What is outside the controller changes only while the counters leave room
\* for the one write the next pass may owe to the changes.
RoomForWrite == networkPolicyCreations + networkPolicyDeletions + dnsNameChanges < MaxEvents

SetDynamicBlacklistInRoom(cidrs) == RoomForWrite /\ SetDynamicBlacklist(cidrs)

CreateSourceInRoom(spec) == RoomForWrite /\ CreateSource(spec)

\* the node ranges the provider installs here: none or one
DenyInputs == SeqsUpTo(DynamicPool, 1)

\* the zones in which a.example has addresses
DenyZones ==
    {z \in ZoneAnswers : ~z["a.example"].err /\ z["a.example"].cidrs # <<>>}

InitFiltered ==
    /\ \E cfg \in ProviderConfigs :
          /\ whitelist = parseCIDRs(cfg[1]).nets
          /\ staticBlacklist = parseCIDRs(cfg[2]).nets
    /\ filterState = "ok"
    /\ dynamicBlacklist = <<>>
    /\ ret = NoRet
    /\ ipFilteredTotal = [h \in Hostnames |-> 0]
    /\ lastSeen = [h \in Hostnames |-> Unseen]
    /\ dnsResolutionChangesTotal = [h \in Hostnames |-> 0]
    /\ InitCtl
    /\ InitProviderIdle
    /\ zone \in [serial : {0}, answers : ZoneAnswers]
    /\ inflight = [p \in Callers |-> Idle]

NextDeny ==
    \/ ReconcileFilteredOk
    \/ ReconcileFiltered("status", 0)
    \/ \E cidrs \in DenyInputs : SetDynamicBlacklistInRoom(cidrs)
    \/ \E spec \in SourceSpecs : CreateSourceInRoom(spec)

\* every filter and every zone
SpecFiltered == InitFiltered /\ [][NextDeny]_vars

\* a filter without static lists, so that the dynamic blacklist alone decides
InitDeny ==
    /\ InitFiltered
    /\ whitelist = <<>>
    /\ staticBlacklist = <<>>
    /\ zone.answers \in DenyZones

\* a pass is run again after its requeue interval, or with backoff after an
\* error, and the API server does not refuse the status for ever
SpecDeny == InitDeny /\ [][NextDeny]_vars /\ WF_vars(ReconcileFilteredOk)

-----------------------------------------------------------------------------
(* What the claims speak of, said without the filter's own operators.      *)

Parseable(s) == ~ParseCIDR(s).err

AddrOf(s) == [fam |-> s.fam, addr |-> s.addr]

AllAddrs == [fam : Families, addr : AddrSpace]

\* the addresses of a stored network: a block of 2^(AddrBits-plen) addresses
Inside(ip, n) ==
    /\ ip.fam = n.fam
    /\ n.addr <= ip.addr
    /\ ip.addr < n.addr + 2 ^ (AddrBits - n.plen)

\* the addresses a CIDR string denotes: those sharing its first plen bits
Denotes(s, ip) ==
    /\ ip.fam = s.fam
    /\ ip.addr \div (2 ^ (AddrBits - s.plen)) = s.addr \div (2 ^ (AddrBits - s.plen))

InsideSome(ip, nets) == \E i \in 1 .. Len(nets) : Inside(ip, nets[i])

Denied(ip) == InsideSome(ip, staticBlacklist) \/ InsideSome(ip, dynamicBlacklist)

HasUnparseable(cidrs) == \E i \in 1 .. Len(cidrs) : ~Parseable(cidrs[i])

\* C1: deny always wins: an IsAllowed call on a parseable address that lies
\* inside a static or a dynamic deny entry returns false, whatever the
\* whitelist holds.
C1_DenyAlwaysWins ==
    (ret.op = "IsAllowed" /\ Parseable(ret.arg) /\ Denied(AddrOf(ret.arg)))
        => ret.val = FALSE

\* an address inside the whitelist and inside the installed dynamic set only, refused
C1_Witness ==
    /\ ret.op = "IsAllowed"
    /\ Parseable(ret.arg)
    /\ InsideSome(AddrOf(ret.arg), whitelist)
    /\ InsideSome(AddrOf(ret.arg), dynamicBlacklist)
    /\ ~InsideSome(AddrOf(ret.arg), staticBlacklist)
    /\ ret.val = FALSE

\* C2: for a parseable address inside no deny entry, IsAllowed returns true
\* exactly when the whitelist is empty or the address lies inside one of its
\* entries.
C2_AllowRule ==
    (ret.op = "IsAllowed" /\ Parseable(ret.arg) /\ ~Denied(AddrOf(ret.arg)))
        => (ret.val <=> (Len(whitelist) = 0 \/ InsideSome(AddrOf(ret.arg), whitelist)))

\* a non-empty whitelist, deny lists that miss the address, the address outside
\* the whitelist and refused
C2_Witness ==
    /\ ret.op = "IsAllowed"
    /\ Parseable(ret.arg)
    /\ Len(whitelist) > 0
    /\ Len(staticBlacklist) > 0
    /\ Len(dynamicBlacklist) > 0
    /\ ~Denied(AddrOf(ret.arg))
    /\ ~InsideSome(AddrOf(ret.arg), whitelist)
    /\ ret.val = FALSE

\* C3: after a successful SetDynamicBlacklist(S) the dynamic deny list is S,
\* entry by entry, whatever it held before: nothing of the prior list is
\* left, so the same S gives the same list and the empty S the empty list.
C3_ReplacesExactly ==
    (ret.op = "SetDynamicBlacklist" /\ ~ret.err)
        => /\ Len(dynamicBlacklist) = Len(ret.arg)
           /\ \A i \in 1 .. Len(ret.arg) : \A ip \in AllAddrs :
                  Inside(ip, dynamicBlacklist[i]) <=> Denotes(ret.arg[i], ip)

\* a successful replacement of a non-empty list by the empty one
C3_Witness ==
    /\ ret.op = "SetDynamicBlacklist"
    /\ ~ret.err
    /\ Len(ret.old) > 0
    /\ ret.arg = <<>>
    /\ dynamicBlacklist = <<>>

\* C4: SetDynamicBlacklist with a list holding an unparseable entry returns
\* an error and leaves the dynamic deny list as it was before the call.
C4_RejectedListChangesNothing ==
    (ret.op = "SetDynamicBlacklist" /\ HasUnparseable(ret.arg))
        => (ret.err /\ dynamicBlacklist = ret.old)

\* a rejected list whose first entry is valid, over a non-empty installed list
C4_Witness ==
    /\ ret.op = "SetDynamicBlacklist"
    /\ Len(ret.arg) > 1
    /\ Parseable(ret.arg[1])
    /\ HasUnparseable(ret.arg)
    /\ Len(ret.old) > 0
    /\ ret.err

\* C5: IsAllowed returns true for every unparseable address string, for
\* every whitelist, static blacklist and dynamic blacklist.
C5_UnparseableFailsOpen ==
    (ret.op = "IsAllowed" /\ ~Parseable(ret.arg)) => ret.val = TRUE

\* an unparseable address allowed by a filter with all three lists set
C5_Witness ==
    /\ ret.op = "IsAllowed"
    /\ ~Parseable(ret.arg)
    /\ Len(whitelist) > 0
    /\ Len(staticBlacklist) > 0
    /\ Len(dynamicBlacklist) > 0
    /\ ret.val = TRUE

\* C6: NewIPFilter returns an error and no filter exactly when some string of
\* the whitelist or of the blacklist is unparseable, and a filter otherwise.
C6_ConstructionFailsOnBadCidr ==
    (ret.op = "NewIPFilter")
        => /\ ret.err <=> (HasUnparseable(ret.arg[1]) \/ HasUnparseable(ret.arg[2]))
           /\ ret.err <=> filterState = "error"
           /\ ~ret.err <=> filterState = "ok"

\* construction refused for a valid whitelist and an unparseable blacklist
C6_Witness ==
    /\ ret.op = "NewIPFilter"
    /\ Len(ret.arg[1]) > 0
    /\ ~HasUnparseable(ret.arg[1])
    /\ HasUnparseable(ret.arg[2])
    /\ filterState = "error"

\* C7: when the inner resolution succeeds, Resolve returns without error
\* exactly the inner resolver's addresses for which IsAllowed holds, in the
\* inner resolver's order.
C7_ResolveReturnsAllowedSubsequence ==
    (ret.op = "Resolve" /\ ~ret.arg[2].err)
        => /\ ~ret.err
           /\ ret.val = SelectSeq(ret.arg[2].cidrs, IsAllowed)

\* two addresses resolved, one kept and one rejected
C7_Witness ==
    /\ ret.op = "Resolve"
    /\ ~ret.arg[2].err
    /\ Len(ret.arg[2].cidrs) = 2
    /\ Len(ret.val) = 1
    /\ ret.val[1] = ret.arg[2].cidrs[2]

SetOf(s) == { s[i] : i \in 1 .. Len(s) }

\* C8: a successful resolution of a hostname raises that hostname's change
\* counter by one if and only if a baseline from an earlier resolution exists
\* and the filtered result differs from it as a set; otherwise the counter
\* stays.
C8_ChangeEventIffSetDiffers ==
    [][\A h \in Hostnames :
          dnsResolutionChangesTotal'[h] - dnsResolutionChangesTotal[h] =
              IF /\ lastSeen[h].seen
                 /\ lastSeen'[h].seen
                 /\ SetOf(lastSeen'[h].cidrs) # SetOf(lastSeen[h].cidrs)
              THEN 1 ELSE 0]_vars

\* C9: a pass for a source policy that does not exist returns no error and
\* no requeue, raises the deletion counter by exactly one, resolves nothing,
\* neither creates nor updates a derived object and writes no status.
C9_MissingSourceIsCountedAndIgnored ==
    ~anp.exists =>
        \A outs \in PassAnswers : \A t \in ClockReadings :
            LET o == reconcile(outs, "none", t)
            IN  /\ o.res.err = FALSE
                /\ o.res.requeueAfter = 0
                /\ o.deletions = networkPolicyDeletions + 1
                /\ o.res.calls = <<>>
                /\ o.res.wrote = "none"
                /\ o.np = np
                /\ o.creations = networkPolicyCreations
                /\ o.changes = dnsNameChanges
                /\ o.res.statusWritten = FALSE
                /\ o.anp = anp

\* a pass has found no source policy and counted it, the derived policy of the
\* deleted source still exists, and the next pass will find the same
C9_Witness ==
    /\ ~anp.exists
    /\ np.exists
    /\ networkPolicyDeletions = 1

\* the position, among the Resolve calls of a pass, of hostname j of rule r
CallOf(egress, r, j) == Len(Occurrences(SubSeq(egress, 1, r - 1))) + j

\* C10: when a Resolve call of a pass fails and no call on the API server
\* does, the pass still resolves every hostname occurrence of every rule,
\* leaves a derived policy (writing it when it was absent or different) whose
\* rules hold a peer for every address of every occurrence that resolved, and
\* returns no error and a requeue delay.
C10_ResolutionFailureDoesNotAbort ==
    anp.exists =>
        \A outs \in PassAnswers : \A t \in ClockReadings :
            LET o == reconcile(outs, "none", t)
            IN  (\E k \in DOMAIN outs : outs[k].err) =>
                  /\ o.res.calls = Occurrences(anp.spec.egress)
                  /\ o.res.err = FALSE
                  /\ o.res.requeueAfter >= minResolutionInterval
                  /\ o.np.exists
                  /\ (o.np # np) = (o.res.wrote \in {"create", "update"})
                  /\ Len(o.np.spec.egress) = Len(anp.spec.egress)
                  /\ \A r \in 1 .. Len(anp.spec.egress) :
                        \A j \in 1 .. Len(anp.spec.egress[r].to) :
                           LET a == outs[CallOf(anp.spec.egress, r, j)]
                           IN  ~a.err =>
                                 \A i \in 1 .. Len(a.cidrs) :
                                    [ipBlock |-> [cidr |-> a.cidrs[i]]]
                                        \in SetOf(o.np.spec.egress[r].to)

\* a pass over a rule with two hostnames has failed to resolve the first,
\* resolved the second and created the derived policy with the second's peers
C10_Witness ==
    /\ anp.exists
    /\ Len(anp.spec.egress) = 1
    /\ anp.spec.egress[1].to = <<"a.example", "b.example">>
    /\ Len(anp.status.conditions) = 1
    /\ anp.status.conditions[1].status = "False"
    /\ anp.status.conditions[1].message[2] = <<"a.example">>
    /\ networkPolicyCreations = 1
    /\ dnsNameChanges = 0
    /\ np.exists
    /\ Len(np.spec.egress) = 1
    /\ Len(np.spec.egress[1].to) = 1

\* the entries of seq at the positions in K, in the order of the positions
At(seq, K) ==
    [i \in 1 .. Cardinality(K) |->
        seq[CHOOSE k \in K : Cardinality({j \in K : j < k}) = i - 1]]

\* the Resolve calls of a pass that failed, by position
FailedCalls(outs) == {k \in DOMAIN outs : outs[k].err}

\* the records of type Ready in a condition list
ReadyIn(conditions) ==
    {i \in 1 .. Len(conditions) : conditions[i].type = "Ready"}

\* C11: after a pass that persists status, the Ready condition is False with
\* reason ResolutionFailed and a message naming the failing hostnames in the
\* order of the failures if at least one Resolve call of the pass failed, and
\* True with reason Reconciled if none did.
C11_ReadyTellsResolutionFailures ==
    anp.exists =>
        \A outs \in PassAnswers : \A t \in ClockReadings :
            LET o == reconcile(outs, "none", t)
                conditions == o.anp.status.conditions
            IN  /\ o.res.statusWritten
                /\ ReadyIn(conditions) # {}
                /\ \A i \in ReadyIn(conditions) :
                      IF FailedCalls(outs) # {}
                      THEN /\ conditions[i].status = "False"
                           /\ conditions[i].reason = "ResolutionFailed"
                           /\ conditions[i].message[2] =
                                  At(Occurrences(anp.spec.egress), FailedCalls(outs))
                      ELSE /\ conditions[i].status = "True"
                           /\ conditions[i].reason = "Reconciled"

\* a pass over a rule with two hostnames has failed to resolve both and has
\* persisted a Ready condition that names them in the order of the calls
C11_Witness ==
    /\ anp.exists
    /\ Len(anp.status.conditions) = 1
    /\ anp.status.conditions[1].status = "False"
    /\ anp.status.conditions[1].reason = "ResolutionFailed"
    /\ anp.status.conditions[1].message[2] = <<"a.example", "b.example">>
    /\ anp.status.conditions[1].observedGeneration = anp.generation

\* C12: after a pass that persists status, no hostname for which the pass
\* recorded a resolution failure has an entry in resolvedAddresses, and every
\* entry holds the address list a Resolve call of the pass returned for its
\* hostname; also when a hostname occurs in several rules.
C12_ResolvedAddressesOnlySucceeding ==
    anp.exists =>
        \A outs \in PassAnswers : \A t \in ClockReadings :
            LET o == reconcile(outs, "none", t)
                occ == Occurrences(anp.spec.egress)
                resolved == o.anp.status.resolvedAddresses
            IN  /\ o.res.statusWritten
                /\ \A k \in FailedCalls(outs) : occ[k] \notin DOMAIN resolved
                /\ \A h \in DOMAIN resolved :
                      \E k \in DOMAIN outs :
                          /\ occ[k] = h
                          /\ ~outs[k].err
                          /\ resolved[h] = outs[k].cidrs

\* the addresses that the successful calls for the hostnames of rule r
\* returned, as pairs <<hostname position, address position>>
AnswersOfRule(egress, r, outs) ==
    {p \in (1 .. Len(egress[r].to)) \X (1 .. MaxAnswers + 1) :
        LET a == outs[CallOf(egress, r, p[1])]
        IN  ~a.err /\ p[2] <= Len(a.cidrs)}

Earlier(p, q) == p[1] < q[1] \/ (p[1] = q[1] /\ p[2] < q[2])

\* one ipBlock peer per address of AnswersOfRule, in hostname order and, for
\* one hostname, in the order the resolver returned the addresses
PeersOfRule(egress, r, outs) ==
    LET P == AnswersOfRule(egress, r, outs)
    IN  [n \in 1 .. Cardinality(P) |->
            LET p == CHOOSE p \in P : Cardinality({q \in P : Earlier(q, p)}) = n - 1
            IN  [ipBlock |-> [cidr |-> outs[CallOf(egress, r, p[1])].cidrs[p[2]]]]]

\* the derived spec that the source spec and the resolver answers call for
ImageOf(spec, outs) ==
    [podSelector |-> spec.podSelector,
     policyTypes |-> spec.policyTypes,
     egress |-> [r \in 1 .. Len(spec.egress) |->
                    [ports |-> spec.egress[r].ports,
                     to |-> PeersOfRule(spec.egress, r, outs)]]]

\* C13: in the diff-and-apply step of a pass, an absent derived object is
\* created and the creation counter rises by one; an existing one whose spec
\* differs from the synthesized spec gets that spec and the update counter
\* rises by one; an existing one with an equal spec is not written and no
\* counter changes.
C13_DiffAndApply ==
    anp.exists =>
        \A fail \in {"none", "status"} :
            \A outs \in PassAnswers : \A t \in ClockReadings :
                LET o == reconcile(outs, fail, t)
                    synthesized == ImageOf(anp.spec, outs)
                IN  IF ~np.exists
                    THEN /\ o.res.wrote = "create"
                         /\ o.np.exists
                         /\ o.np.spec = synthesized
                         /\ o.creations = networkPolicyCreations + 1
                         /\ o.changes = dnsNameChanges
                    ELSE IF np.spec # synthesized
                    THEN /\ o.res.wrote = "update"
                         /\ o.np.exists
                         /\ o.np.spec = synthesized
                         /\ o.creations = networkPolicyCreations
                         /\ o.changes = dnsNameChanges + 1
                    ELSE /\ o.res.wrote = "none"
                         /\ o.np = np
                         /\ o.creations = networkPolicyCreations
                         /\ o.changes = dnsNameChanges

\* the derived policy was created by one pass and, after the source spec had
\* changed to one with two rules, updated by a later one
C13_Witness ==
    /\ anp.exists
    /\ anp.generation = 2
    /\ Len(anp.spec.egress) = 2
    /\ np.exists
    /\ Len(np.spec.egress) = 2
    /\ networkPolicyCreations = 1
    /\ dnsNameChanges = 1

\* C14: when a pass has completed successfully, the pass that follows it
\* with the same source spec and the same resolver answers issues no create
\* and no update, leaves both counters as they are and leaves the source spec
\* and the derived object as they are, so that the same holds for every pass
\* after it.
C14_ReconcileIsIdempotent ==
    anp.exists =>
        \A outs \in PassAnswers : \A t \in ClockReadings :
            LET first == reconcile(outs, "none", t)
            IN  \A t2 \in t .. MaxTime :
                    LET again == reconcileFrom(first, outs, "none", t2)
                    IN  /\ first.res.err = FALSE
                        /\ again.res.err = FALSE
                        /\ again.res.wrote = "none"
                        /\ again.np = first.np
                        /\ again.anp.spec = first.anp.spec
                        /\ again.creations = first.creations
                        /\ again.changes = first.changes

\* a first pass has created the derived policy with two peers; a second
\* pass with the same answers finds nothing to write
C14_Witness ==
    /\ anp.exists
    /\ np.exists
    /\ networkPolicyCreations = 1
    /\ dnsNameChanges = 0
    /\ Len(np.spec.egress) = 1
    /\ Len(np.spec.egress[1].to) = 2
    /\ Len(anp.status.conditions) = 1
    /\ anp.status.conditions[1].status = "True"
    /\ \E outs \in PassAnswers :
          /\ np.spec = ImageOf(anp.spec, outs)
          /\ reconcile(outs, "none", MaxTime).res.wrote = "none"

\* the larger of two durations
Longer(a, b) == CHOOSE d \in {a, b} : d >= a /\ d >= b

\* C15: every successful pass returns a requeue delay of max(30 seconds,
\* configured interval), an unset interval counting as 5 minutes: 10 seconds
\* gives 30 seconds, unset gives 5 minutes, 10 minutes gives 10 minutes, zero
\* and negative intervals give 30 seconds; the delay is never below 30 seconds.
C15_RequeueDelayIsClamped ==
    anp.exists =>
        \A outs \in PassAnswers : \A t \in ClockReadings :
            LET o == reconcile(outs, "none", t)
                configured == anp.spec.resolutionInterval
            IN  /\ o.res.err = FALSE
                /\ o.res.requeueAfter =
                      Longer(30, IF configured.set THEN configured.seconds ELSE 5 * 60)
                /\ o.res.requeueAfter >= 30
                /\ (configured.set /\ configured.seconds = 10) => o.res.requeueAfter = 30
                /\ ~configured.set => o.res.requeueAfter = 5 * 60
                /\ (configured.set /\ configured.seconds = 10 * 60)
                      => o.res.requeueAfter = 10 * 60
                /\ (configured.set /\ configured.seconds <= 0) => o.res.requeueAfter = 30

\* a pass over a source policy with an interval of 10 seconds has succeeded
C15_Witness ==
    /\ anp.exists
    /\ anp.spec.resolutionInterval.set
    /\ anp.spec.resolutionInterval.seconds = 10
    /\ Len(anp.status.conditions) = 1
    /\ anp.status.conditions[1].observedGeneration = anp.generation
    /\ np.exists
    /\ \E outs \in PassAnswers : np.spec = ImageOf(anp.spec, outs)

\* C16: the derived policy a pass leaves has the source policy's pod
\* selector and policy types and one egress rule per source rule, in order;
\* each derived rule has the source rule's ports in order with protocol, port
\* and end-port unchanged, and as peers one ipBlock per address of each
\* successfully resolved hostname, in hostname order and resolver order.
C16_DerivedPolicyIsImageOfSource ==
    anp.exists =>
        \A outs \in PassAnswers : \A t \in ClockReadings :
            LET o == reconcile(outs, "none", t)
                derived == o.np.spec
                source == anp.spec
            IN  /\ o.np.exists
                /\ derived.podSelector = source.podSelector
                /\ derived.policyTypes = source.policyTypes
                /\ Len(derived.egress) = Len(source.egress)
                /\ \A r \in 1 .. Len(source.egress) :
                      /\ Len(derived.egress[r].ports) = Len(source.egress[r].ports)
                      /\ \A i \in 1 .. Len(source.egress[r].ports) :
                            /\ derived.egress[r].ports[i].protocol =
                                   source.egress[r].ports[i].protocol
                            /\ derived.egress[r].ports[i].port =
                                   source.egress[r].ports[i].port
                            /\ derived.egress[r].ports[i].endPort =
                                   source.egress[r].ports[i].endPort
                      /\ derived.egress[r].to = PeersOfRule(source.egress, r, outs)

\* a pass over a rule naming a.example and b.example has resolved both and
\* left a rule whose peers are a.example's two addresses, then b.example's
C16_Witness ==
    /\ anp.exists
    /\ np.exists
    /\ Len(anp.spec.egress) = 1
    /\ anp.spec.egress[1].to = <<"a.example", "b.example">>
    /\ Len(np.spec.egress) = 1
    /\ np.spec.egress[1].to = << [ipBlock |-> [cidr |-> Str(4, 1, AddrBits)]],
                                  [ipBlock |-> [cidr |-> Str(4, 0, AddrBits)]],
                                  [ipBlock |-> [cidr |-> Str(4, 2, AddrBits)]] >>

\* ticks taken from ticker.C by the select in Start
Received == ticks - tickerC

\* C17: Start refreshes once before it waits for any tick, afterwards once for
\* every tick it takes from the ticker, and while the context is not cancelled
\* every tick waiting in ticker.C is taken and gets its refresh.
C17_RefreshOnStartThenPerTick ==
    /\ [](startPc = "refresh" => refreshes = 0 /\ ticks = 0)
    /\ [](startPc # "refresh" => refreshes = 1 + Received)
    /\ (startPc = "select" /\ tickerC = 1 /\ ~ctxDone) ~> (tickerC = 0 \/ ctxDone)

C17_Witness ==
    /\ startPc = "select"
    /\ ~ctxDone
    /\ ticks = 2
    /\ tickerC = 0
    /\ refreshes = 3

\* the ranges a node contributes, as the provider's contract words it
RangesOfNode(node) ==
    IF node.podCIDRs # <<>> THEN node.podCIDRs
    ELSE IF node.podCIDR # EmptyString THEN <<node.podCIDR>>
    ELSE <<>>

\* the ranges of the nodes one after the other, in list order
RECURSIVE RangesInOrder(_)
RangesInOrder(items) ==
    IF items = <<>> THEN <<>>
    ELSE RangesInOrder(SubSeq(items, 1, Len(items) - 1)) \o RangesOfNode(items[Len(items)])

\* a list without the repetitions of what stands earlier in it
RECURSIVE KeepFirst(_)
KeepFirst(seq) ==
    IF seq = <<>> THEN <<>>
    ELSE LET front == SubSeq(seq, 1, Len(seq) - 1)
             last == seq[Len(seq)]
         IN  IF last \in SetOf(front) THEN KeepFirst(front)
             ELSE Append(KeepFirst(front), last)

Collected == KeepFirst(RangesInOrder(nodeList.items))

\* the dynamic blacklist is these ranges, one network for each, in this order
Installed(ranges) ==
    /\ Len(dynamicBlacklist) = Len(ranges)
    /\ \A i \in 1 .. Len(ranges) :
          /\ Parseable(ranges[i])
          /\ \A ip \in AllAddrs : Inside(ip, dynamicBlacklist[i]) <=> Denotes(ranges[i], ip)

\* the last refresh listed the nodes without an error
ListedNodes == refreshes > 0 /\ ~nodeList.err

\* C18 as stated: a refresh whose listing succeeds installs exactly the
\* ranges collected from the nodes (PodCIDRs, else PodCIDR, else nothing;
\* repetitions dropped, the first occurrence kept).
C18_InstallsCollectedRanges ==
    ListedNodes => Installed(Collected)

\* C18 amended: a refresh whose listing succeeds installs exactly the ranges
\* collected from the nodes when every one of them parses; when one does not,
\* the dynamic blacklist stays as it was before the refresh.
C18_InstallsCollectedRangesIfTheyParse ==
    ListedNodes =>
        /\ ret.op = "SetDynamicBlacklist"
        /\ ret.arg = Collected
        /\ IF HasUnparseable(Collected)
           THEN ret.err /\ dynamicBlacklist = ret.old
           ELSE ~ret.err /\ Installed(Collected)

\* two nodes that share a range: the dual-stack node, then the node with the
\* single field only
C18_Witness ==
    /\ ListedNodes
    /\ nodeList.items = <<Node(<<Str(4, 3, 1), Str(6, 0, 0)>>, Str(4, 3, 1)),
                          Node(<<>>, Str(4, 3, 1))>>
    /\ Len(dynamicBlacklist) = 2
    /\ Installed(<<Str(4, 3, 1), Str(6, 0, 0)>>)

\* nothing but the dynamic blacklist, as it stood before the last call of
\* SetDynamicBlacklist, kept this address from being allowed
DeniedOnlyByPrevious(ip) ==
    /\ InsideSome(ip, ret.old)
    /\ ~InsideSome(ip, staticBlacklist)
    /\ whitelist = <<>> \/ InsideSome(ip, whitelist)

\* C19: after a refresh that listed the nodes and found no range (no node, or
\* only nodes without one) the dynamic blacklist is empty, and every address
\* that only the dynamic blacklist installed before it denied is allowed.
C19_EmptyInventoryClears ==
    (ListedNodes /\ RangesInOrder(nodeList.items) = <<>>) =>
        /\ dynamicBlacklist = <<>>
        /\ ret.op = "SetDynamicBlacklist" /\ ~ret.err
        /\ \A q \in QueryStrings :
              (Parseable(q) /\ DeniedOnlyByPrevious(AddrOf(q))) => IsAllowed(q)

\* a node without a range is listed while a range is installed, and an
\* address of that range is allowed afterwards
C19_Witness ==
    /\ ListedNodes
    /\ nodeList.items = <<Node(<<>>, EmptyString)>>
    /\ dynamicBlacklist = <<>>
    /\ ret.old # <<>>
    /\ \E q \in QueryStrings :
          Parseable(q) /\ DeniedOnlyByPrevious(AddrOf(q)) /\ IsAllowed(q)

\* C20: a refresh whose node listing fails leaves the dynamic blacklist as it
\* was before the refresh.
C20_ListErrorKeepsDynamicBlacklist ==
    [][(refreshes' = refreshes + 1 /\ nodeList'.err)
          => dynamicBlacklist' = dynamicBlacklist]_vars

\* the listing failed in a refresh after the first, and ranges are installed
C20_Witness ==
    /\ refreshes > 1
    /\ nodeList.err
    /\ dynamicBlacklist # <<>>

\* the stored list holds at most one Ready record and a pass puts its own in
\* the place of it, or at the end when there is none
ReadyReplacedInPlace ==
    /\ Cardinality(ReadyIn(anp.status.conditions)) <= 1
    /\ anp.exists =>
          \A outs \in PassAnswers : \A t \in ClockReadings :
              LET before == anp.status.conditions
                  after == reconcile(outs, "none", t).anp.status.conditions
              IN  IF ReadyIn(before) = {}
                  THEN /\ Len(after) = Len(before) + 1
                       /\ ReadyIn(after) = {Len(after)}
                       /\ SubSeq(after, 1, Len(before)) = before
                  ELSE /\ Len(after) = Len(before)
                       /\ ReadyIn(after) = ReadyIn(before)
                       /\ \A i \in 1 .. Len(before) :
                             i \notin ReadyIn(before) => after[i] = before[i]

\* C21: the stored condition list never holds more than one record of type
\* Ready; a pass that persists status puts its Ready record in the place of
\* the stored one when there is one, and at the end of the list when there
\* is none, and touches no other record.
C21_AtMostOneReady == []ReadyReplacedInPlace

\* a Ready record is stored, and a pass that finds it can persist one with
\* the other status value
C21_Witness ==
    /\ anp.exists
    /\ Len(anp.status.conditions) = 1
    /\ anp.status.conditions[1].type = "Ready"
    /\ \E outs \in PassAnswers :
          LET after == reconcile(outs, "none", MaxTime).anp.status.conditions
          IN  /\ Len(after) = 1
              /\ after[1].status # anp.status.conditions[1].status

\* what a pass does to the stored Ready record
TransitionTimeKept ==
    anp.exists =>
        \A outs \in PassAnswers : \A t \in ClockReadings :
            LET before == anp.status.conditions
                after == reconcile(outs, "none", t).anp.status.conditions
                failed == At(Occurrences(anp.spec.egress), FailedCalls(outs))
            IN  \A i \in ReadyIn(before) :
                    /\ after[i].lastTransitionTime =
                           IF after[i].status = before[i].status
                           THEN before[i].lastTransitionTime
                           ELSE t
                    /\ after[i].observedGeneration = anp.generation
                    /\ after[i].message[2] = failed
                    /\ after[i].reason =
                           IF failed = <<>> THEN "Reconciled" ELSE "ResolutionFailed"

\* C22: a pass that persists status and finds a Ready record stored keeps the
\* stored last-transition-time when its status value is the stored one, while
\* reason, message and observed generation are those of the pass; when its
\* status value differs, the last-transition-time is the time of the pass.
C22_TransitionTimeFollowsStatus == []TransitionTimeKept

\* a Ready record of an earlier generation and an earlier time is stored; a
\* later pass with the same status value keeps its time and one with the other
\* status value does not
C22_Witness ==
    /\ anp.exists
    /\ Len(anp.status.conditions) = 1
    /\ anp.status.conditions[1].lastTransitionTime < MaxTime
    /\ anp.status.conditions[1].observedGeneration < anp.generation
    /\ \E same, other \in PassAnswers :
          LET kept == reconcile(same, "none", MaxTime).anp.status.conditions[1]
              moved == reconcile(other, "none", MaxTime).anp.status.conditions[1]
          IN  /\ kept.status = anp.status.conditions[1].status
              /\ kept.lastTransitionTime = anp.status.conditions[1].lastTransitionTime
              /\ kept.observedGeneration = anp.generation
              /\ moved.status # anp.status.conditions[1].status
              /\ moved.lastTransitionTime = MaxTime

\* the controller reference to the source policy
OwnedBySource(refs) ==
    /\ Len(refs) = 1
    /\ refs[1].controller
    /\ refs[1].name = "anp"

\* C23: after a pass that returns without error the derived object exists
\* and carries exactly one owner reference, a controller reference to the
\* source policy, whether the pass created it or found it.
C23_DerivedIsOwnedBySource ==
    anp.exists =>
        \A outs \in PassAnswers : \A t \in ClockReadings :
            LET o == reconcile(outs, "none", t)
            IN  /\ o.np.exists
                /\ OwnedBySource(o.np.ownerReferences)

\* ascending in the order sort.Strings puts the strings in
Ascending(cidrs) ==
    \A i, j \in 1 .. Len(cidrs) : i < j => StrKey(cidrs[i]) <= StrKey(cidrs[j])

NoDuplicates(seq) == \A i, j \in 1 .. Len(seq) : i # j => seq[i] # seq[j]

\* the addresses of a lookup that are IP addresses, each as the one-address
\* range of its family
HostRanges(addrs) ==
    { Str(addrs[i].fam, addrs[i].addr, AddrBits) :
          i \in {k \in 1 .. Len(addrs) : addrs[k].fam \in Families} }

\* C24: NetResolver.Resolve returns for a successful lookup the one-address
\* ranges of the addresses that parse, sorted ascending and without a
\* duplicate; for a failed lookup an error and no list.
C24_NetResolverSortedNoDuplicates ==
    ret.op = "NetResolve" =>
        IF ret.arg[2].err
        THEN ret.err /\ ret.val = <<>>
        ELSE /\ ~ret.err
             /\ SetOf(ret.val) = HostRanges(ret.arg[2].addrs)
             /\ Ascending(ret.val)
             /\ NoDuplicates(ret.val)


\* the derived policy is the image of the source spec under what the zone
\* answers now
Converged ==
    anp.exists => np.exists /\ np.spec = ImageOf(anp.spec, zoneOuts)

ZoneOrSourceChanges ==
    \/ \E z \in ZoneAnswers : ChangeZone(z)
    \/ \E spec \in SourceSpecs : UpdateSourceInZone(spec)

\* C25: with passes requeued fairly and no failing API call, once the zone's
\* answers and the source spec change no more, the derived policy comes to
\* hold exactly the addresses of the answers that stand, and keeps them.
C25_DerivedFollowsStableAnswer ==
    ([]<><<ZoneOrSourceChanges>>_vars) \/ <>[]Converged

\* the zone has changed the answer for a.example from two addresses to none,
\* and the derived policy, created from the old answer, has been updated
C25_Witness ==
    /\ zone.serial = 1
    /\ ~zone.answers["a.example"].err
    /\ zone.answers["a.example"].cidrs = <<>>
    /\ anp.exists
    /\ anp.spec.egress = <<EgressRule(<<Port(443)>>, <<"a.example">>)>>
    /\ networkPolicyCreations = 1
    /\ dnsNameChanges = 1
    /\ np.spec.egress[1].to = <<>>

\* C26: in the filter of unnamed/part_002 IsAllowed answers true for every
\* string that does not parse as a CIDR, whatever the blacklist covers.
C26_UnparseableIsAllowedCD ==
    (ret.op = "IsAllowedCD" /\ ~Parseable(ret.arg)) => ret.val = TRUE

\* C27: after a Resolve of the change-detecting resolver that returns without
\* error, the baseline stored for the hostname is the list it returned, put
\* in ascending order and freed of duplicates.
C27_BaselineIsSortedSetOfResult ==
    (ret.op = "ResolveCD" /\ ~ret.err) =>
        /\ lastSeen[ret.arg].seen
        /\ SetOf(lastSeen[ret.arg].cidrs) = SetOf(ret.val)
        /\ Ascending(lastSeen[ret.arg].cidrs)
        /\ NoDuplicates(lastSeen[ret.arg].cidrs)

\* C28: with several callers resolving through one FilteringResolver, the
\* change events counted for a hostname never outnumber the changes of the
\* answers (zone.serial counts every change of an answer, also one that the
\* filter hides).
C28_NoMoreEventsThanChanges ==
    \A h \in Hostnames : dnsResolutionChangesTotal[h] <= zone.serial


\* What IsAllowed answers for cidr when the dynamic blacklist is the whole list nets.
AllowedAgainst(cidr, nets) ==
    LET p == ParseCIDR(cidr)
    IN  IF p.err THEN TRUE
        ELSE /\ ~ \E k \in 1 .. Len(staticBlacklist) : NetContains(staticBlacklist[k], p.ip)
             /\ ~ \E k \in 1 .. Len(nets) : NetContains(nets[k], p.ip)
             /\ \/ Len(whitelist) = 0
                \/ \E k \in 1 .. Len(whitelist) : NetContains(whitelist[k], p.ip)

ReaderHasLocals == "pc" \in DOMAIN inflight[Reader]

\* C29: an IsAllowed call that runs beside SetDynamicBlacklist judges the
\* address against one whole installed list: the list it holds after the read
\* lock is the list installed at that moment, and its answer is the answer for
\* that list, whatever is installed while the call goes on.
C29_NoTornRead ==
    [][/\ (ReaderHasLocals /\ inflight[Reader].pc = "rlock" /\ inflight'[Reader].pc = "scan")
           => inflight'[Reader].dynBL = dynamicBlacklist
       /\ (inflight' # inflight /\ inflight'[Reader].pc = "done")
           => inflight'[Reader].verdict
                = AllowedAgainst(inflight'[Reader].cidr, inflight'[Reader].dynBL)]_vars

\* a call has answered for the list it read although another list, which gives
\* the opposite answer, was installed before the call ended
C29_Witness ==
    /\ ReaderHasLocals
    /\ inflight[Reader].pc = "done"
    /\ inflight[Reader].i > 0
    /\ inflight[Reader].dynBL # dynamicBlacklist
    /\ inflight[Reader].verdict = AllowedAgainst(inflight[Reader].cidr, inflight[Reader].dynBL)
    /\ inflight[Reader].verdict # AllowedAgainst(inflight[Reader].cidr, dynamicBlacklist)


DerivedCalls == {"getDerived", "create", "update"}

\* a pass that fails on the derived object changes and counts nothing
DerivedCallFailureLeavesAll ==
    anp.exists =>
        \* only the update depends on what was resolved: it is made when the
        \* peers differ from the stored ones
        \A fail \in DerivedCalls :
          \A outs \in IF fail = "update" THEN PassAnswers ELSE AnswersBefore(fail) :
            LET o == reconcile(outs, fail, 0)
            IN  o.reached =>
                    /\ o.res.err
                    /\ o.res.requeueAfter = 0
                    /\ o.creations = networkPolicyCreations
                    /\ o.changes = dnsNameChanges
                    /\ ~o.res.statusWritten
                    /\ o.anp = anp
                    /\ o.np = np

\* C30: a pass in which fetching, creating or updating the derived object
\* fails returns an error and no requeue delay, raises neither the creation
\* nor the update counter, and leaves the source policy's status, and the
\* derived object, as the pass found them.
C30_DerivedCallFailureIsTerminal == []DerivedCallFailureLeavesAll

\* an earlier pass has written a status, the answers have changed since, and
\* the update that follows from them can fail; so can a create
C30_Witness ==
    /\ anp.exists
    /\ anp.status.conditions # <<>>
    /\ np.exists
    /\ \E outs \in PassAnswers :
          /\ reconcile(outs, "update", 0).reached
          /\ reconcile(outs, "update", 0).anp.status = anp.status
          /\ reconcile(outs, "none", 0).changes = dnsNameChanges + 1


\* a pass whose status update fails leaves what a pass without failure
\* leaves, but for the status; the pass after it creates nothing
StatusFailureKeepsDerived ==
    anp.exists =>
        \A outs \in PassAnswers :
            LET o == reconcile(outs, "status", 0)
                ok == reconcile(outs, "none", 0)
            IN  /\ o.reached
                /\ o.res.err
                /\ o.res.requeueAfter = 0
                /\ ~o.res.statusWritten
                /\ o.anp = anp
                /\ o.np = ok.np
                /\ o.np.exists
                /\ o.res.wrote = ok.res.wrote
                /\ o.creations = networkPolicyCreations + (IF np.exists THEN 0 ELSE 1)
                /\ o.changes = dnsNameChanges + (IF o.res.wrote = "update" THEN 1 ELSE 0)
                /\ \A again \in PassAnswers :
                      LET retry == reconcileFrom(o, again, "none", 0)
                      IN  /\ retry.res.wrote # "create"
                          /\ retry.creations = o.creations
                \* a retry in which Create would fail never gets to call it
                /\ ~reconcileFrom(o, outs, "create", 0).reached

\* C31: when persisting the status fails, the pass returns an error and no
\* requeue delay; the create or update of the derived object made earlier in
\* the pass stays and its counter stays raised; the pass that retries issues
\* no second create.
C31_StatusFailureKeepsDerived == []StatusFailureKeepsDerived

\* a source policy without a derived one: the pass creates it, fails on the
\* status, and the retry with the same answers writes nothing but the status
C31_Witness ==
    /\ anp.exists
    /\ ~np.exists
    /\ \E outs \in PassAnswers :
          LET o == reconcile(outs, "status", 0)
          IN  /\ o.reached
              /\ o.res.wrote = "create"
              /\ o.np.exists
              /\ o.np.spec.egress # <<>>
              /\ o.creations = networkPolicyCreations + 1
              /\ reconcileFrom(o, outs, "none", 0).res.wrote = "none"
              /\ reconcileFrom(o, outs, "none", 0).res.statusWritten


\* the hostnames a pass asked for and got only errors for
FailedHostnames(outs) ==
    LET occ == Occurrences(anp.spec.egress)
    IN  {h \in Hostnames :
            /\ \E k \in DOMAIN outs : occ[k] = h
            /\ \A k \in DOMAIN outs : occ[k] = h => outs[k].err}

\* C32: a hostname that fails resolution in a pass keeps, in the persisted
\* resolvedAddresses, the address list it had from its last successful pass.
C32_FailedHostnameKeepsAddresses ==
    anp.exists =>
        \A outs \in PassAnswers : \A t \in ClockReadings :
            LET o == reconcile(outs, "none", t)
            IN  \A h \in FailedHostnames(outs) :
                    h \in DOMAIN anp.status.resolvedAddresses =>
                        /\ h \in DOMAIN o.anp.status.resolvedAddresses
                        /\ o.anp.status.resolvedAddresses[h]
                               = anp.status.resolvedAddresses[h]


\* a is b with some entries left out
RECURSIVE IsSubList(_, _)
IsSubList(a, b) ==
    IF a = <<>> THEN TRUE
    ELSE IF b = <<>> THEN FALSE
    ELSE IF Head(a) = Head(b) THEN IsSubList(Tail(a), Tail(b))
    ELSE IsSubList(a, Tail(b))

\* full answers every call, and as outs does where outs has an answer
Completes(full, outs) ==
    \A k \in DOMAIN outs :
        /\ ~full[k].err
        /\ ~outs[k].err => full[k] = outs[k]

\* the calls of rule r, as positions in the pass
CallsOfRule(egress, r) ==
    {CallOf(egress, r, j) : j \in 1 .. Len(egress[r].to)}

RECURSIVE SumOver(_, _)
SumOver(f, K) ==
    IF K = {} THEN 0
    ELSE LET k == CHOOSE x \in K : TRUE IN f[k] + SumOver(f, K \ {k})

\* every source rule gives a derived rule with its ports; a call without
\* addresses gives the rule no peer and takes none away
EmptyAnswerKeepsRule ==
    anp.exists =>
        \A outs \in PassAnswers :
            LET source == anp.spec.egress
                derived == reconcile(outs, "none", 0).np.spec.egress
                got == [k \in DOMAIN outs |->
                           IF outs[k].err THEN 0 ELSE Len(outs[k].cidrs)]
            IN  /\ Len(derived) = Len(source)
                /\ \A r \in 1 .. Len(source) :
                      /\ derived[r].ports = source[r].ports
                      /\ Len(derived[r].to) = SumOver(got, CallsOfRule(source, r))
                      /\ (\A k \in CallsOfRule(source, r) : got[k] = 0)
                            => derived[r].to = <<>>
                      /\ \A full \in PassAnswers :
                            Completes(full, outs) =>
                                IsSubList(derived[r].to,
                                          reconcile(full, "none", 0).np.spec.egress[r].to)

\* C33: a hostname with no resolved address (the call failed, or every
\* address was filtered) gives its rule no peer and never removes the rule:
\* the derived rule is there with the source rule's ports, its peers are a
\* sub-list of the peers it would have had all hostnames resolving, and a rule
\* whose hostnames all give no address has an empty peer list.
C33_EmptyAnswerKeepsRule == []EmptyAnswerKeepsRule

\* a pass over one rule with a port to a.example has failed to resolve it
\* and left the derived rule with the port and no peer
C33_Witness ==
    /\ anp.exists
    /\ np.exists
    /\ Len(anp.spec.egress) = 1
    /\ anp.spec.egress[1].to = <<"a.example">>
    /\ Len(anp.status.conditions) = 1
    /\ anp.status.conditions[1].status = "False"
    /\ anp.status.conditions[1].observedGeneration = anp.generation
    /\ Len(np.spec.egress) = 1
    /\ np.spec.egress[1].ports = anp.spec.egress[1].ports
    /\ np.spec.egress[1].ports # <<>>
    /\ np.spec.egress[1].to = <<>>


\* C34: once the context is cancelled Start returns nil in the end, and it
\* can do so without a further tick; the ticker is stopped when it returns;
\* Start returns for no other reason than the cancellation, whatever its
\* refreshes ran into.
C34_StartReturnsOnCancel ==
    /\ ctxDone ~> (startPc = "returned")
    /\ []((ctxDone /\ startPc = "select") => ENABLED ReceiveDone)
    /\ [](startPc = "returned" => ctxDone)
    /\ [][startPc = "returned" => (ticks' = ticks /\ tickerC' = tickerC)]_vars

\* Start has returned after a single refresh, which could not list the nodes,
\* and without any tick
C34_Witness ==
    /\ startPc = "returned"
    /\ ctxDone
    /\ nodeList.err
    /\ refreshes = 1
    /\ ticks = 0


\* the last refresh installed nothing: it could not list the nodes, or a
\* range it collected does not parse
LastRefreshFailed ==
    /\ refreshes > 0
    /\ nodeList.err \/ HasUnparseable(Collected)

\* C35: a refresh that fails (the listing fails, or a range of a node does
\* not parse) does not stop the loop: while the context is not cancelled the
\* next tick gets its refresh, and a refresh after it whose listing succeeds
\* with ranges that parse installs what it collected.
C35_FailedRefreshDoesNotStopLoop ==
    /\ []((LastRefreshFailed /\ ~ctxDone) => startPc = "select")
    /\ \A n \in 1 .. MaxTicks + 1 :
          (LastRefreshFailed /\ refreshes = n /\ tickerC = 1 /\ ~ctxDone)
              ~> (refreshes = n + 1 \/ ctxDone)
    /\ [][(LastRefreshFailed /\ refreshes' = refreshes + 1
                /\ ~nodeList'.err /\ ~(HasUnparseable(Collected))')
            => (Installed(Collected) /\ Collected = ret.arg /\ ~ret.err)']_vars

\* the refresh at the start could not list the nodes; the loop is at its
\* select with a tick waiting
C35_Witness ==
    /\ startPc = "select"
    /\ ~ctxDone
    /\ refreshes = 1
    /\ nodeList.err
    /\ tickerC = 1


\* the strings written as ipBlock peers in a policy
PeersOf(policy) ==
    UNION {{policy.spec.egress[r].to[i].ipBlock.cidr : i \in 1 .. Len(policy.spec.egress[r].to)} :
              r \in 1 .. Len(policy.spec.egress)}

\* no peer of the policy is an address of the dynamic blacklist
NoDeniedPeer(policy) ==
    \A c \in PeersOf(policy) :
        Parseable(c) => ~InsideSome(AddrOf(c), dynamicBlacklist)

\* the derived policy is there and holds no address of the dynamic blacklist
CleanOfDenied == anp.exists => (np.exists /\ NoDeniedPeer(np))

\* C36: a pass that runs while the dynamic blacklist holds an address and
\* that completes leaves a derived policy without a peer for that address;
\* passes being run again and again, once the dynamic blacklist stands still
\* the derived policy comes to hold none of its addresses and stays so.
C36_DeniedAddressLeavesDerived ==
    /\ [](anp.exists =>
            \A t \in ClockReadings :
                LET o == reconcile(filteredOuts, "none", t)
                IN  ~o.res.err /\ o.np.exists /\ NoDeniedPeer(o.np))
    /\ [][np' # np => NoDeniedPeer(np')]_vars
    /\ ([]<><<dynamicBlacklist' # dynamicBlacklist>>_vars) \/ <>[]CleanOfDenied

\* the derived policy was created with both addresses of a.example; one of
\* them was then put on the dynamic blacklist, and a pass has taken it out
C36_Witness ==
    /\ anp.exists
    /\ np.exists
    /\ whitelist = <<>>
    /\ staticBlacklist = <<>>
    /\ Len(anp.spec.egress) = 1
    /\ anp.spec.egress[1].to = <<"a.example">>
    /\ zone.answers["a.example"].cidrs = <<Str(4, 1, AddrBits), Str(4, 0, AddrBits)>>
    /\ InsideSome(AddrOf(Str(4, 1, AddrBits)), dynamicBlacklist)
    /\ ret.op = "SetDynamicBlacklist"
    /\ ret.old = <<>>
    /\ networkPolicyCreations = 1
    /\ dnsNameChanges = 1
    /\ PeersOf(np) = {Str(4, 0, AddrBits)}
    /\ ipFilteredTotal["a.example"] = 1


\* what the inner resolver returned, in this pass, to the calls of rule r
\* and what IsAllowed accepts of it
AllowedAnswersOfRule(r) ==
    {c \in UNION {{innerOuts[k].cidrs[j] : j \in 1 .. Len(innerOuts[k].cidrs)} :
                     k \in {n \in CallsOfRule(anp.spec.egress, r) : ~innerOuts[n].err}} :
        IsAllowed(c)}

\* every peer of every rule of the policy is an accepted answer of this pass
\* to a hostname of the rule
PeersAreAllowedAnswers(policy) ==
    /\ Len(policy.spec.egress) = Len(anp.spec.egress)
    /\ \A r \in 1 .. Len(policy.spec.egress) :
          \A i \in 1 .. Len(policy.spec.egress[r].to) :
              policy.spec.egress[r].to[i].ipBlock.cidr \in AllowedAnswersOfRule(r)

\* C37: every ipBlock peer a pass writes into the derived policy is an
\* address the inner resolver returned in that pass for a hostname of the
\* source policy and that IsAllowed accepted in that pass: no peer that the
\* filter rejected, none that only an earlier pass had.
C37_PeersAreAllowedAnswers ==
    /\ [](anp.exists =>
            \A fail \in {"none", "status"} : \A t \in ClockReadings :
                PeersAreAllowedAnswers(reconcile(filteredOuts, fail, t).np))
    /\ [][np' # np => PeersAreAllowedAnswers(np')]_vars

\* behind a whitelist that holds b.example's address and neither of
\* a.example's, a pass over a rule naming both has written b.example's alone
C37_Witness ==
    /\ anp.exists
    /\ np.exists
    /\ whitelist # <<>>
    /\ Len(anp.spec.egress) = 1
    /\ anp.spec.egress[1].to = <<"a.example", "b.example">>
    /\ Len(zone.answers["a.example"].cidrs) = 2
    /\ Len(zone.answers["b.example"].cidrs) = 1
    /\ ipFilteredTotal["a.example"] > 0
    /\ np.spec.egress[1].to = <<[ipBlock |-> [cidr |-> Str(4, 2, AddrBits)]]>>


\* C38: when the inner resolver fails for a hostname, Resolve returns the
\* error and no list, counts no change and no filtered address, and leaves
\* the baseline of that hostname and of every other as it was, so that the
\* next answer for the hostname is compared with the last one it got.
C38_InnerErrorTouchesNothing ==
    [][(ret'.op = "ResolveCD" /\ ret'.err) =>
          /\ ret'.val = <<>>
          /\ ipFilteredTotal' = ipFilteredTotal
          /\ dnsResolutionChangesTotal' = dnsResolutionChangesTotal
          /\ lastSeen' = lastSeen]_vars

\* a hostname with a baseline and a filtered address to its name has failed
\* to resolve
C38_Witness ==
    /\ ret.op = "ResolveCD"
    /\ ret.err
    /\ lastSeen[ret.arg].seen
    /\ lastSeen[ret.arg].cidrs # <<>>
    /\ ipFilteredTotal[ret.arg] > 0
    /\ \E h \in Hostnames : h # ret.arg /\ lastSeen[h].seen


\* C39: once the context is cancelled Start begins no refresh, so the
\* dynamic blacklist is not replaced after the cancellation, a tick waiting
\* in ticker.C at the cancellation included.
C39_NoRefreshAfterCancel ==
    [][ctxDone => (refreshes' = refreshes /\ dynamicBlacklist' = dynamicBlacklist)]_vars

====
